---------------------------- MODULE Spec2Model ----------------------------
(***************************************************************************)
(* A model of the archive bot in src/uni_bot.py: the `files` table with    *)
(* its AUTOINCREMENT key and its two unique indexes, the per-user session  *)
(* dictionary (sticky subject binding, search mode), the wall clock, and   *)
(* the handlers that read and change them.                                 *)
(*                                                                         *)
(* Text (what a user types, a caption) is a sequence of one-character      *)
(* strings, so that strip() and lower() are computed and not assumed.      *)
(* Time is in whole seconds: utcnow_str() and the purge cutoff are both    *)
(* cut to seconds before they are compared.                                *)
(*                                                                         *)
(* handle_file awaits the download between its identity pre-check and its  *)
(* hash check; a request in flight is held in `inflight` between the two   *)
(* steps, and other handlers may run in between.                           *)
(***************************************************************************)
EXTENDS Integers, Sequences, FiniteSets, TLC

VARIABLES
    files,        \* the rows of table `files`
    seq,          \* sqlite_sequence for `files`: the largest id ever issued
    user_data,    \* context.user_data of each user
    now,          \* the wall clock, in seconds
    ticks,        \* how many times the clock has advanced
    inflight,     \* handle_file requests suspended at the download
    last,         \* the last step taken: the handler, its user, its outcome
    issued,       \* history: the ids add_file_row returned, in order
    hashed,       \* history: the (hash, tg_unique_id) of the submissions that
                  \* computed a hash and have finished
    declared,     \* history: each user's declaration in force (subject, time)
    disk,         \* the payload files present under FILES_DIR
    backups       \* the snapshots present under BACKUP_DIR

vars == << files, seq, user_data, now, ticks, inflight, last, issued, hashed, declared, disk, backups >>

-----------------------------------------------------------------------------
(* Bounds of the model *)

MaxId == 2          \* add_file_row is not tried once seq has reached MaxId,
                    \* nor once it has issued MaxId ids
MaxTicks == 2       \* the clock advances at most MaxTicks times

-----------------------------------------------------------------------------
(* Configuration *)

NULL == "NULL"              \* None / SQL NULL, where the value is a string
NullText == << NULL >>      \* the same, where the value is text
NullTime == 0 - 1           \* the same, where the value is a time
NullId == 0 - 1             \* the same, where the value is a row id

OWNER_ID == 1
ADMIN_IDS == {OWNER_ID}
LIBRARY_ID == OWNER_ID
Users == {1, 2}

TRASH_RETENTION_DAYS == 30
SecondsPerDay == 86400
RetentionSeconds == TRASH_RETENTION_DAYS * SecondsPerDay

FIXED_TTL == 10 * 60

\* how many snapshots are kept, as the deployment sets it
BACKUP_KEEP == 2

Poetry == <<"P","o","e","t","r","y">>
Writing == <<"W","r","i","t","i","n","g">>
PsychologicalHealth == <<"P","s","y","c","h","o","l","o","g","i","c","a","l"," ","H","e","a","l","t","h">>
Drama == <<"D","r","a","m","a">>
Linguistics == <<"L","i","n","g","u","i","s","t","i","c","s">>
Novel == <<"N","o","v","e","l">>
Pedagogy == <<"P","e","d","a","g","o","g","y"," ","a","n","d"," ","C","u","r","r","i","c","u","l","u","m"," ","I","n","n","o","v","a","t","i","o","n">>
Grammar == <<"G","r","a","m","m","a","r">>
Listening == <<"L","i","s","t","e","n","i","n","g"," ","a","n","d"," ","s","p","e","a","k","i","n","g">>

SUBJECTS == << Poetry, Writing, PsychologicalHealth, Drama, Linguistics,
               Novel, Pedagogy, Grammar, Listening >>

-----------------------------------------------------------------------------
(* Text *)

UpperToLower ==
    "A" :> "a" @@ "B" :> "b" @@ "C" :> "c" @@ "D" :> "d" @@ "E" :> "e" @@
    "F" :> "f" @@ "G" :> "g" @@ "H" :> "h" @@ "I" :> "i" @@ "J" :> "j" @@
    "K" :> "k" @@ "L" :> "l" @@ "M" :> "m" @@ "N" :> "n" @@ "O" :> "o" @@
    "P" :> "p" @@ "Q" :> "q" @@ "R" :> "r" @@ "S" :> "s" @@ "T" :> "t" @@
    "U" :> "u" @@ "V" :> "v" @@ "W" :> "w" @@ "X" :> "x" @@ "Y" :> "y" @@
    "Z" :> "z"

\* str.lower()
Lower(t) ==
    [i \in 1..Len(t) |-> IF t[i] \in DOMAIN UpperToLower THEN UpperToLower[t[i]] ELSE t[i]]

\* str.strip(): the text without its leading and trailing blanks
Strip(t) ==
    LET nb == {i \in 1..Len(t) : t[i] # " "}
    IN  IF nb = {} THEN << >>
        ELSE LET lo == CHOOSE i \in nb : \A j \in nb : i <= j
                 hi == CHOOSE i \in nb : \A j \in nb : j <= i
             IN  SubSeq(t, lo, hi)

\* Mutant: the subject is returned as it was typed
normalize_subject_AsTyped(text) ==
    LET t == Strip(text)
        hits == {i \in 1..Len(SUBJECTS) : Lower(t) = Lower(SUBJECTS[i])}
    IN  IF hits = {} THEN NullText ELSE t

\* normalize_subject: the first configured subject equal to the stripped text
\* without regard to case, or None
normalize_subject(text) ==
    LET t == Strip(text)
        hits == {i \in 1..Len(SUBJECTS) : Lower(t) = Lower(SUBJECTS[i])}
    IN  IF hits = {} THEN NullText
        ELSE SUBJECTS[CHOOSE i \in hits : \A j \in hits : i <= j]

\* Mutant: everyone passes for an administrator
is_admin_Everyone(u) == TRUE

is_admin(u) == u \in ADMIN_IDS

Digits == {"0","1","2","3","4","5","6","7","8","9"}
\* the characters the pattern [\w\-. ()\[\]{}] accepts
SafeChars ==
    DOMAIN UpperToLower \cup {UpperToLower[c] : c \in DOMAIN UpperToLower}
        \cup Digits \cup {"_", "-", ".", " ", "(", ")", "[", "]", "{", "}"}

\* re.sub(r"[^\w\-. ()\[\]{}]+", "_", name): each run of other characters
\* becomes one underscore
RECURSIVE SubUnsafe(_, _)
SubUnsafe(t, inRun) ==
    IF t = << >> THEN << >>
    ELSE IF Head(t) \in SafeChars THEN << Head(t) >> \o SubUnsafe(Tail(t), FALSE)
    ELSE IF inRun THEN SubUnsafe(Tail(t), TRUE)
    ELSE << "_" >> \o SubUnsafe(Tail(t), TRUE)

\* str.strip(chars)
StripChars(t, chars) ==
    LET keep == {i \in 1..Len(t) : t[i] \notin chars}
    IN  IF keep = {} THEN << >>
        ELSE LET lo == CHOOSE i \in keep : \A j \in keep : i <= j
                 hi == CHOOSE i \in keep : \A j \in keep : j <= i
             IN  SubSeq(t, lo, hi)

safe_filename(name, fallback) ==
    LET n == Strip(name)
    IN  IF n = << >> THEN fallback
        ELSE LET m == StripChars(SubUnsafe(n, FALSE), {" ", ".", "_"})
             IN  IF m = << >> THEN fallback ELSE m

\* f"{file_type}_{ts}": the name given to a payload that has none
FallbackName == << "document", "_", "[ts]" >>

-----------------------------------------------------------------------------
(* Inputs *)

\* sha256_file: the digest of a payload; distinct payloads, distinct digests
sha256_file(content) ==
    CASE content = "c1" -> "h1"
      [] content = "c2" -> "h2"
      [] OTHER -> "sha256:" \o content

\* The media messages a user can send: Telegram's file_unique_id names one
\* file, so it determines the payload, while one payload uploaded twice may
\* come with two different ids.
Uploads ==
    { [tg_unique_id |-> "u1", content |-> "c1", file_name |-> <<"a","/","b">>],
      [tg_unique_id |-> "u2", content |-> "c1", file_name |-> <<".",".">>],
      [tg_unique_id |-> "u3", content |-> "c2", file_name |-> <<"A","b">>] }

\* the uploads of different payloads
DistinctUploads == {up \in Uploads : up.tg_unique_id # "u2"}

\* the uploads of one payload under two identities
TwinUploads == {up \in Uploads : up.content = "c1"}

\* msg.caption: absent, or some text
Captions ==
    { NullText,
      <<" ","P","o","e","t","r","y"," ","-"," ","a","b"," ">> }

\* Button texts are single tokens: no configured subject contains them.
BTN_SEARCH == << "[search]" >>
BTN_OTHER == << "[menu]" >>
BTN_BACKUP == << "[backup]" >>

\* What the file system does to a handler: whether the snapshot can be
\* written, and the snapshots (by time) whose unlink fails
Faults(times) == [backup_ok : BOOLEAN, stuck : SUBSET times]
Sound == [backup_ok |-> TRUE, stuck |-> {}]

\* update.message.text
Texts ==
    { <<" ","l","i","n","g","u","i","s","t","i","c","S"," ">>,
      <<"a","b">>,
      BTN_SEARCH,
      BTN_OTHER }

\* How far the clock may jump in one step
Deltas == {1, FIXED_TTL - 1, FIXED_TTL + 1, RetentionSeconds - 1, RetentionSeconds + 1}

\* Two handle_file requests may be suspended at their downloads at once.
Slots == {1, 2}
FileIds == 1..(MaxId + 1)

-----------------------------------------------------------------------------
(* The files table *)

Max(S) == CHOOSE x \in S : \A y \in S : y <= x
Min(S) == CHOOSE x \in S : \A y \in S : x <= y

RowsOf(F, user_id) == {r \in F : r.user_id = user_id}

\* Mutant: idx_files_user_unique is missing
ViolatesUnique_NoUniqueIndex(F, user_id, tg_unique_id, content_hash) ==
    /\ content_hash # NULL
    /\ \E r \in RowsOf(F, user_id) : r.content_hash = content_hash

\* Mutant: the table has no unique index at all
ViolatesUnique_NoIndex(F, user_id, tg_unique_id, content_hash) == FALSE

\* idx_files_user_unique and idx_files_user_hash: would the row break one of
\* the two unique indexes? (SQL NULLs never collide)
ViolatesUnique(F, user_id, tg_unique_id, content_hash) ==
    \/ /\ tg_unique_id # NULL
       /\ \E r \in RowsOf(F, user_id) : r.tg_unique_id = tg_unique_id
    \/ /\ content_hash # NULL
       /\ \E r \in RowsOf(F, user_id) : r.content_hash = content_hash

\* idx_files_user_hash on UPDATE: would giving the row this content_hash
\* break the index?
UpdateViolatesUnique(F, user_id, existing_id, content_hash) ==
    /\ content_hash # NULL
    /\ \E r \in RowsOf(F, user_id) : r.id # existing_id /\ r.content_hash = content_hash

\* SELECT ... LIMIT 1: the set of the row fetched, empty when none matches
OneOf(R) == IF R = {} THEN {} ELSE {CHOOSE r \in R : \A q \in R : r.id <= q.id}

\* Mutant: the lookup compares tg_file_id, which changes from message to
\* message, and so matches nothing
get_file_by_unique_NoMatch(F, user_id, tg_unique_id) == {}

get_file_by_unique(F, user_id, tg_unique_id) ==
    IF tg_unique_id = NULL THEN {}
    ELSE OneOf({r \in RowsOf(F, user_id) : r.tg_unique_id = tg_unique_id})

\* Mutant: the lookup by hash finds nothing
get_file_by_hash_NoMatch(F, user_id, content_hash) == {}

\* Mutant: the lookup has lost its content_hash condition
get_file_by_hash_AnyRow(F, user_id, content_hash) ==
    IF content_hash = NULL THEN {}
    ELSE OneOf(RowsOf(F, user_id))

\* Mutant: the lookup compares the hash with the wrong column
get_file_by_hash_WrongColumn(F, user_id, content_hash) ==
    IF content_hash = NULL THEN {}
    ELSE OneOf({r \in RowsOf(F, user_id) : r.tg_unique_id = content_hash})

get_file_by_hash(F, user_id, content_hash) ==
    IF content_hash = NULL THEN {}
    ELSE OneOf({r \in RowsOf(F, user_id) : r.content_hash = content_hash})

\* Mutant: the lookup leaves out the rows in the trash
get_file_by_id_ActiveOnly(F, user_id, file_id) ==
    OneOf({r \in RowsOf(F, user_id) : r.id = file_id /\ r.is_deleted = 0})

get_file_by_id(F, user_id, file_id) ==
    OneOf({r \in RowsOf(F, user_id) : r.id = file_id})

\* id INTEGER PRIMARY KEY AUTOINCREMENT: one more than the largest id the
\* table has ever held
\* Mutant: the table is declared without AUTOINCREMENT
NextRowId_MaxRowid(F, s) == Max({0} \cup {r.id : r \in F}) + 1

NextRowId(F, s) == Max({s} \cup {r.id : r \in F}) + 1

\* The row add_file_row inserts
\* A caption read as "<subject> <separator> <note>": the subject named before
\* the first '-', ':' or '|', and the note after it
Separators == {"-", ":", "|"}

FirstSeparator(cap) ==
    LET at == {i \in 1..Len(cap) : cap[i] \in Separators}
    IN  IF at = {} THEN 0 ELSE CHOOSE i \in at : \A j \in at : i <= j

CaptionHint(cap) ==
    IF cap = NullText \/ FirstSeparator(cap) = 0 THEN NullText
    ELSE normalize_subject(SubSeq(cap, 1, FirstSeparator(cap) - 1))

CaptionRest(cap) ==
    LET rest == Strip(SubSeq(cap, FirstSeparator(cap) + 1, Len(cap)))
    IN  IF rest = << >> THEN NullText ELSE rest

\* Mutant: a subject named at the head of the caption overrides the subject
\* passed in, and only the rest of the caption is stored
NewRow_HintFirst(F, s, user_id, subject, tg_unique_id, filename, caption, local_path, content_hash, added_at) ==
    [ id           |-> NextRowId(F, s),
      user_id      |-> user_id,
      subject      |-> IF CaptionHint(caption) # NullText THEN CaptionHint(caption) ELSE subject,
      tg_unique_id |-> tg_unique_id,
      filename     |-> filename,
      caption      |-> IF CaptionHint(caption) # NullText THEN CaptionRest(caption) ELSE caption,
      local_path   |-> local_path,
      content_hash |-> content_hash,
      added_at     |-> added_at,
      is_fav       |-> 0,
      is_deleted   |-> 0,
      deleted_at   |-> NullTime ]

NewRow(F, s, user_id, subject, tg_unique_id, filename, caption, local_path, content_hash, added_at) ==
    [ id           |-> NextRowId(F, s),
      user_id      |-> user_id,
      subject      |-> subject,
      tg_unique_id |-> tg_unique_id,
      filename     |-> filename,
      caption      |-> caption,
      local_path   |-> local_path,
      content_hash |-> content_hash,
      added_at     |-> added_at,
      is_fav       |-> 0,
      is_deleted   |-> 0,
      deleted_at   |-> NullTime ]

\* files.local_path: where the payload was saved, FILES_DIR/<subject>/<ts>_<name>
Path(subject, ts, name) == [subject |-> subject, ts |-> ts, name |-> name]
NullPath == Path(NullText, NullTime, NullText)

COALESCE(a, b, null) == IF a # null THEN a ELSE b

\* Mutant: the update clears is_deleted and leaves deleted_at as it was
update_existing_file_from_duplicate_KeepsDeletedAt(F, user_id, existing_id, filename, caption, local_path, content_hash) ==
    { IF r.user_id = user_id /\ r.id = existing_id
        THEN [r EXCEPT !.filename = COALESCE(filename, r.filename, NullText),
                       !.caption = COALESCE(caption, r.caption, NullText),
                       !.local_path = COALESCE(local_path, r.local_path, NullPath),
                       !.content_hash = COALESCE(content_hash, r.content_hash, NULL),
                       !.is_deleted = 0]
        ELSE r : r \in F }

update_existing_file_from_duplicate(F, user_id, existing_id, filename, caption, local_path, content_hash) ==
    { IF r.user_id = user_id /\ r.id = existing_id
        THEN [r EXCEPT !.filename = COALESCE(filename, r.filename, NullText),
                       !.caption = COALESCE(caption, r.caption, NullText),
                       !.local_path = COALESCE(local_path, r.local_path, NullPath),
                       !.content_hash = COALESCE(content_hash, r.content_hash, NULL),
                       !.is_deleted = 0,
                       !.deleted_at = NullTime]
        ELSE r : r \in F }

set_fav(F, user_id, file_id, fav) ==
    { IF r.user_id = user_id /\ r.id = file_id
        THEN [r EXCEPT !.is_fav = fav] ELSE r : r \in F }

\* Mutant: the update takes the star off the row it trashes
soft_delete_file_Unstars(F, user_id, file_id, t) ==
    { IF r.user_id = user_id /\ r.id = file_id
        THEN [r EXCEPT !.is_deleted = 1, !.deleted_at = t, !.is_fav = 0] ELSE r : r \in F }

\* Mutant: the update has lost its user_id condition
soft_delete_file_AnyOwner(F, user_id, file_id, t) ==
    { IF r.id = file_id
        THEN [r EXCEPT !.is_deleted = 1, !.deleted_at = t] ELSE r : r \in F }

soft_delete_file(F, user_id, file_id, t) ==
    { IF r.user_id = user_id /\ r.id = file_id
        THEN [r EXCEPT !.is_deleted = 1, !.deleted_at = t] ELSE r : r \in F }

\* Mutant: the update leaves deleted_at as it was
restore_file_KeepsDeletedAt(F, user_id, file_id) ==
    { IF r.user_id = user_id /\ r.id = file_id
        THEN [r EXCEPT !.is_deleted = 0] ELSE r : r \in F }

restore_file(F, user_id, file_id) ==
    { IF r.user_id = user_id /\ r.id = file_id
        THEN [r EXCEPT !.is_deleted = 0, !.deleted_at = NullTime] ELSE r : r \in F }

\* Mutant: the purge empties the trash whatever the age of its rows
purge_trash_NoCutoff(F, user_id, t) ==
    {r \in F : ~ (r.user_id = user_id /\ r.is_deleted = 1)}

\* Mutant: the cutoff is compared with <=
purge_trash_Inclusive(F, user_id, t) ==
    {r \in F : ~ ( /\ r.user_id = user_id
                   /\ r.is_deleted = 1
                   /\ r.deleted_at # NullTime
                   /\ r.deleted_at <= t - RetentionSeconds )}

\* a NULL deleted_at compares as unknown, and the row stays
purge_trash(F, user_id, t) ==
    { r \in F : ~ ( /\ r.user_id = user_id
                    /\ r.is_deleted = 1
                    /\ r.deleted_at # NullTime
                    /\ r.deleted_at < t - RetentionSeconds ) }

\* hard_delete_file, before the DELETE: the payload it means to unlink, that
\* of the row when there is one with a local_path
hard_delete_file_unlinks(F, user_id, file_id) ==
    { r.local_path : r \in { x \in get_file_by_id(F, user_id, file_id) :
                                x.local_path # NullPath } }

\* Mutant: the DELETE has lost its id condition
hard_delete_file_NoIdFilter(F, D, user_id, file_id, unlink_ok) ==
    [ files |-> { r \in F : r.user_id # user_id },
      disk  |-> IF unlink_ok THEN D \ hard_delete_file_unlinks(F, user_id, file_id) ELSE D ]

\* Mutant: an unlink that fails ends the function before its DELETE
hard_delete_file_UnlinkAborts(F, D, user_id, file_id, unlink_ok) ==
    IF unlink_ok \/ hard_delete_file_unlinks(F, user_id, file_id) = {}
      THEN [ files |-> { r \in F : ~ (r.user_id = user_id /\ r.id = file_id) },
             disk  |-> D \ hard_delete_file_unlinks(F, user_id, file_id) ]
      ELSE [ files |-> F, disk |-> D ]

\* hard_delete_file: the table and the payload files it leaves. The unlink
\* may fail; the failure is swallowed, and the DELETE runs in any case.
hard_delete_file(F, D, user_id, file_id, unlink_ok) ==
    [ files |-> { r \in F : ~ (r.user_id = user_id /\ r.id = file_id) },
      disk  |-> IF unlink_ok THEN D \ hard_delete_file_unlinks(F, user_id, file_id) ELSE D ]

-----------------------------------------------------------------------------
(* Queries: each yields the ids of the rows it returns, in the order it
   returns them *)

RECURSIVE SortedDesc(_)
SortedDesc(S) ==
    IF S = {} THEN << >>
    ELSE LET m == Max(S) IN << m >> \o SortedDesc(S \ {m})

\* ORDER BY id DESC LIMIT n
DescLimit(R, n) ==
    LET ids == SortedDesc({r.id : r \in R})
    IN  SubSeq(ids, 1, IF Len(ids) < n THEN Len(ids) ELSE n)

SeqToSet(q) == {q[i] : i \in 1..Len(q)}

LowerChar(c) == IF c \in DOMAIN UpperToLower THEN UpperToLower[c] ELSE c

\* SQLite's LIKE: % any run, _ any one character, letters without regard to
\* case
RECURSIVE Like(_, _)
Like(pattern, t) ==
    IF pattern = << >> THEN t = << >>
    ELSE IF Head(pattern) = "%"
        THEN Like(Tail(pattern), t) \/ (t # << >> /\ Like(pattern, Tail(t)))
    ELSE /\ t # << >>
         /\ Head(pattern) = "_" \/ LowerChar(Head(pattern)) = LowerChar(Head(t))
         /\ Like(Tail(pattern), Tail(t))

\* column LIKE ?: a NULL column matches nothing
ColumnLike(col, pattern) == col # NullText /\ Like(pattern, col)

\* the (subject, count) pairs of GROUP BY subject, as a function
count_by_subject(F, user_id) ==
    LET act == {r \in RowsOf(F, user_id) : r.is_deleted = 0}
    IN  [s \in {r.subject : r \in act} |->
            Cardinality({r \in act : r.subject = s})]

list_files_by_subject(F, user_id, subject, limit) ==
    DescLimit({r \in RowsOf(F, user_id) : r.subject = subject /\ r.is_deleted = 0}, limit)

list_recent(F, user_id, limit) ==
    DescLimit({r \in RowsOf(F, user_id) : r.is_deleted = 0}, limit)

\* Mutant: the query has lost its is_deleted=0 condition
list_favorites_WithTrash(F, user_id, limit) ==
    DescLimit({r \in RowsOf(F, user_id) : r.is_fav = 1}, limit)

list_favorites(F, user_id, limit) ==
    DescLimit({r \in RowsOf(F, user_id) : r.is_deleted = 0 /\ r.is_fav = 1}, limit)

\* Mutant: the query has lost its filename clause
search_files_CaptionOnly(F, user_id, q, limit) ==
    LET like == << "%" >> \o q \o << "%" >>
    IN  DescLimit({r \in RowsOf(F, user_id) :
                      r.is_deleted = 0 /\ ColumnLike(r.caption, like)},
                  limit)

search_files(F, user_id, q, limit) ==
    LET like == << "%" >> \o q \o << "%" >>
    IN  DescLimit({r \in RowsOf(F, user_id) :
                      /\ r.is_deleted = 0
                      /\ ColumnLike(r.filename, like) \/ ColumnLike(r.caption, like)},
                  limit)

list_trash(F, user_id, limit) ==
    DescLimit({r \in RowsOf(F, user_id) : r.is_deleted = 1}, limit)

-----------------------------------------------------------------------------
(* Snapshots: a snapshot is the database file as it was, the table and its
   AUTOINCREMENT sequence, under a name made of the second it was taken in;
   its mtime is that second too *)

Snapshot(F, s, t) == [at |-> t, files |-> F, seq |-> s]

\* make_backup_name and make_sqlite_backup: the database is copied to the
\* file of that name, over what the file held
make_sqlite_backup(B, F, s, t) == {b \in B : b.at # t} \cup {Snapshot(F, s, t)}

\* the n snapshots of the latest mtime
NewestOf(B, n) == {b \in B : Cardinality({c \in B : c.at > b.at}) < n}

\* Mutant: the list is sorted oldest first, and the latest are unlinked
cleanup_old_backups_OldestFirst(B, keep, stuck) ==
    IF keep <= 0 THEN B
    ELSE LET kept == {b \in B : Cardinality({c \in B : c.at < b.at}) < keep}
         IN  {b \in B : b \in kept \/ b.at \in stuck}

\* cleanup_old_backups: all but the `keep` latest are unlinked; a snapshot
\* whose unlink fails stays
cleanup_old_backups(B, keep, stuck) ==
    IF keep <= 0 THEN B
    ELSE {b \in B : b \in NewestOf(B, keep) \/ b.at \in stuck}

\* Mutant: the oldest snapshot is taken
LatestBackup_Oldest(B) == CHOOSE b \in B : \A c \in B : b.at <= c.at

\* restore_from_latest_backup: the snapshot of the latest mtime
LatestBackup(B) == CHOOSE b \in B : \A c \in B : c.at <= b.at

-----------------------------------------------------------------------------
(* Sessions *)

\* an empty context.user_data
EmptyData == [fixed_subject |-> NullText, fixed_until |-> NullTime, search_mode |-> FALSE]

NoDeclaration == [subject |-> NullText, at |-> NullTime]

\* Mutant: the binding never expires
get_fixed_subject_NoExpiry(data, t) ==
    IF data.fixed_subject # NullText
        THEN [subj |-> data.fixed_subject, data |-> data]
        ELSE [subj |-> NullText, data |-> data]

\* Mutant: without a live binding the last configured subject is the default
get_fixed_subject_CatchAll(data, t) ==
    LET until == IF data.fixed_until = NullTime THEN 0 ELSE data.fixed_until
    IN  IF data.fixed_subject # NullText /\ t <= until
            THEN [subj |-> data.fixed_subject, data |-> data]
            ELSE [subj |-> SUBJECTS[Len(SUBJECTS)], data |-> data]

\* Mutant: the binding is spent by the file it classifies
get_fixed_subject_OneShot(data, t) ==
    LET until == IF data.fixed_until = NullTime THEN 0 ELSE data.fixed_until
    IN  [subj |-> IF data.fixed_subject # NullText /\ t <= until
                      THEN data.fixed_subject ELSE NullText,
         data |-> [data EXCEPT !.fixed_subject = NullText,
                               !.fixed_until = NullTime]]

\* get_fixed_subject: the bound subject while its expiry has not passed;
\* otherwise None, and the binding is dropped from the session
get_fixed_subject(data, t) ==
    LET until == IF data.fixed_until = NullTime THEN 0 ELSE data.fixed_until
    IN  IF data.fixed_subject # NullText /\ t <= until
            THEN [subj |-> data.fixed_subject, data |-> data]
            ELSE [subj |-> NullText,
                  data |-> [data EXCEPT !.fixed_subject = NullText,
                                        !.fixed_until = NullTime]]

\* Mutant: a declaration that replaces a binding keeps the expiry it finds
BindSubject_KeepsExpiry(data, subj, t) ==
    [data EXCEPT !.fixed_subject = subj,
                 !.fixed_until = IF data.fixed_until = NullTime
                                     THEN t + FIXED_TTL ELSE data.fixed_until]

\* the binding handle_text stores for a declared subject
BindSubject(data, subj, t) ==
    [data EXCEPT !.fixed_subject = subj, !.fixed_until = t + FIXED_TTL]

\* an idle slot of `inflight`
Idle == [busy |-> FALSE]

\* What `last` holds: the handler and its user, the outcome, the row id the
\* answer names, the subject get_fixed_subject returned, and for handle_file
\* the message's tg_unique_id and the hash computed
Step(op, user, kind, id, subj, uid, hash) ==
    [ op |-> op, user |-> user, kind |-> kind, id |-> id, subj |-> subj,
      tg_unique_id |-> uid, content_hash |-> hash ]

NoUser == NullId

-----------------------------------------------------------------------------
(* The initial state: an empty store, empty sessions *)

Init ==
    /\ files = {}
    /\ seq = 0
    /\ user_data = [u \in Users |-> EmptyData]
    /\ now = 0
    /\ ticks = 0
    /\ inflight = [k \in Slots |-> Idle]
    /\ last = Step("none", NoUser, "none", NullId, NullText, NULL, NULL)
    /\ issued = << >>
    /\ hashed = {}
    /\ declared = [u \in Users |-> NoDeclaration]
    /\ disk = {}
    /\ backups = {}

-----------------------------------------------------------------------------
(* Handlers *)

\* the clock advances
Tick(d) ==
    /\ ticks < MaxTicks
    /\ now' = now + d
    /\ ticks' = ticks + 1
    /\ last' = Step("tick", NoUser, "tick", NullId, NullText, NULL, NULL)
    /\ UNCHANGED << files, seq, user_data, inflight, issued, hashed, declared, disk, backups >>

\* /start
start(u) ==
    /\ user_data' = [user_data EXCEPT ![u] = EmptyData]
    /\ declared' = [declared EXCEPT ![u] = NoDeclaration]
    /\ last' = Step("start", u, "welcome", NullId, NullText, NULL, NULL)
    /\ UNCHANGED << files, seq, now, ticks, inflight, issued, hashed, disk, backups >>

\* make_sqlite_backup followed by cleanup_old_backups, as both the backup
\* button and the periodic job run them
SnapshotOp(io) ==
    cleanup_old_backups(make_sqlite_backup(backups, files, seq, now), BACKUP_KEEP, io.stuck)

\* what the cleanup did: an unlink failed, or snapshots were removed, or
\* there was nothing to remove
SnapshotKind(io) ==
    IF SnapshotOp(io) # SnapshotOp(Sound) THEN "backup_unlink_failed"
    ELSE IF SnapshotOp(io) # make_sqlite_backup(backups, files, seq, now) THEN "backup_evicted"
    ELSE "backup"

\* auto_backup_job: the periodic snapshot
auto_backup_job(io) ==
    /\ IF ~ io.backup_ok
         THEN /\ last' = Step("auto_backup_job", NoUser, "backup_failed", NullId, NullText, NULL, NULL)
              /\ UNCHANGED backups
         ELSE /\ backups' = SnapshotOp(io)
              /\ last' = Step("auto_backup_job", NoUser, SnapshotKind(io), NullId, NullText, NULL, NULL)
    /\ UNCHANGED << files, seq, user_data, now, ticks, inflight, issued, hashed, declared, disk >>

\* /restore_latest: an administrator puts the latest snapshot in the place
\* of the database. (The library is detected again afterwards; every row is
\* stored under LIBRARY_ID = OWNER_ID here, and the detection returns it.)
restore_latest(u) ==
    /\ IF ~ is_admin(u)
         THEN /\ last' = Step("restore_latest", u, "not_admin", NullId, NullText, NULL, NULL)
              /\ UNCHANGED << files, seq >>
       ELSE IF backups = {}
         THEN /\ last' = Step("restore_latest", u, "no_backup", NullId, NullText, NULL, NULL)
              /\ UNCHANGED << files, seq >>
       ELSE /\ files' = LatestBackup(backups).files
            /\ seq' = LatestBackup(backups).seq
            /\ last' = Step("restore_latest", u, "restored_backup", NullId, NullText, NULL, NULL)
    /\ UNCHANGED << user_data, now, ticks, inflight, issued, hashed, declared, disk, backups >>

\* handle_text: a pending search takes the text as its query; then the menu
\* buttons; then a subject name, which an administrator binds for FIXED_TTL
handle_text(u, msgtext, io) ==
    LET text == Strip(msgtext)
        subj == normalize_subject(text)
    IN
    /\ IF user_data[u].search_mode
         THEN /\ user_data' = [user_data EXCEPT ![u].search_mode = FALSE]
              /\ last' = Step("handle_text", u,
                               IF search_files(files, LIBRARY_ID, text, 30) = << >>
                                   THEN "no_results" ELSE "results",
                               NullId, NullText, NULL, NULL)
              /\ UNCHANGED << declared, backups >>
       ELSE IF text = BTN_SEARCH
         THEN /\ user_data' = [user_data EXCEPT ![u].search_mode = TRUE]
              /\ last' = Step("handle_text", u, "ask_query", NullId, NullText, NULL, NULL)
              /\ UNCHANGED << declared, backups >>
       ELSE IF text = BTN_OTHER
         THEN /\ last' = Step("handle_text", u, "menu", NullId, NullText, NULL, NULL)
              /\ UNCHANGED << user_data, declared, backups >>
       ELSE IF text = BTN_BACKUP
         THEN /\ IF ~ is_admin(u)
                   THEN /\ last' = Step("handle_text", u, "not_admin", NullId, NullText, NULL, NULL)
                        /\ UNCHANGED backups
                 ELSE IF ~ io.backup_ok
                   THEN /\ last' = Step("handle_text", u, "backup_failed", NullId, NullText, NULL, NULL)
                        /\ UNCHANGED backups
                 ELSE /\ backups' = SnapshotOp(io)
                      /\ last' = Step("handle_text", u, SnapshotKind(io), NullId, NullText, NULL, NULL)
              /\ UNCHANGED << user_data, declared >>
       ELSE IF subj # NullText
         THEN IF ~ is_admin(u)
                THEN /\ last' = Step("handle_text", u, "viewer_only", NullId, NullText, NULL, NULL)
                     /\ UNCHANGED << user_data, declared, backups >>
                ELSE /\ user_data' = [user_data EXCEPT ![u] = BindSubject(@, subj, now)]
                     /\ declared' = [declared EXCEPT ![u] = [subject |-> subj, at |-> now]]
                     /\ last' = Step("handle_text", u, "fixed", NullId, subj, NULL, NULL)
                     /\ UNCHANGED backups
       ELSE /\ last' = Step("handle_text", u, "not_understood", NullId, NullText, NULL, NULL)
            /\ UNCHANGED << user_data, declared, backups >>
    /\ UNCHANGED << files, seq, now, ticks, inflight, issued, hashed, disk >>


\* msg.caption, stripped; None when nothing is left
CaptionOf(cap) ==
    IF cap = NullText THEN NullText
    ELSE IF Strip(cap) = << >> THEN NullText ELSE Strip(cap)

\* handle_file up to the download: the administrator check, the sticky
\* subject (get_fixed_subject leaves the session as it returns it), the
\* pre-check on tg_unique_id. A request that goes on to the
\* download is suspended in the first idle slot among `slots`.
HandleFileBegin(u, up, cap, slots) ==
    LET fixed == get_fixed_subject(user_data[u], now)
        uid == up.tg_unique_id
        existing_u == get_file_by_unique(files, LIBRARY_ID, uid)
        free == {k \in slots : ~ inflight[k].busy}
    IN
    IF ~ is_admin(u)
      THEN /\ last' = Step("handle_file", u, "not_admin", NullId, NullText, uid, NULL)
           /\ UNCHANGED << files, seq, user_data, now, ticks, inflight, issued, hashed, declared, disk, backups >>
    ELSE IF fixed.subj = NullText
      THEN /\ user_data' = [user_data EXCEPT ![u] = fixed.data]
           /\ last' = Step("handle_file", u, "need_subject", NullId, NullText, uid, NULL)
           /\ UNCHANGED << files, seq, now, ticks, inflight, issued, hashed, declared, disk, backups >>
    ELSE IF \E r \in existing_u : r.is_deleted = 0
      THEN /\ last' = Step("handle_file", u, "dup_unique",
                           (CHOOSE r \in existing_u : TRUE).id, fixed.subj, uid, NULL)
           /\ user_data' = [user_data EXCEPT ![u] = fixed.data]
           /\ UNCHANGED << files, seq, now, ticks, inflight, issued, hashed, declared, disk, backups >>
    ELSE /\ free # {}
         /\ inflight' = [inflight EXCEPT ![Min(free)] =
                [ busy     |-> TRUE,
                  user     |-> u,
                  upload   |-> up,
                  caption  |-> CaptionOf(cap),
                  subj     |-> fixed.subj,
                  filename |-> safe_filename(up.file_name, FallbackName),
                  local_path |-> Path(fixed.subj, now,
                                      safe_filename(up.file_name, FallbackName)),
                  \* history: the rows in the table when the file came in
                  rows_at_begin |-> {r.id : r \in files} ]]
         /\ last' = Step("handle_file", u, "downloading", NullId, fixed.subj, uid, NULL)
         /\ user_data' = [user_data EXCEPT ![u] = fixed.data]
         /\ UNCHANGED << files, seq, now, ticks, issued, hashed, declared, disk, backups >>

\* handle_file from the download on: the download, the hash, the check on
\* content_hash, the restore of a trashed row with the same tg_unique_id,
\* the insert
HandleFileFinish(k, download_ok, hash_ok) ==
    LET req == inflight[k]
        u == req.user
        uid == req.upload.tg_unique_id
        content_hash == IF hash_ok THEN sha256_file(req.upload.content) ELSE NULL
        existing_h == get_file_by_hash(files, LIBRARY_ID, content_hash)
        existing_u == get_file_by_unique(files, LIBRARY_ID, uid)
        row == NewRow(files, seq, LIBRARY_ID, req.subj, uid,
                      req.filename, req.caption, req.local_path, content_hash, now)
        saved == disk \cup {req.local_path}
        done == IF content_hash = NULL THEN hashed
                ELSE hashed \cup {[content_hash |-> content_hash, tg_unique_id |-> uid]}
    IN
    /\ req.busy
    /\ inflight' = [inflight EXCEPT ![k] = Idle]
    /\ IF ~ download_ok
         THEN /\ last' = Step("handle_file", u, "download_failed", NullId, req.subj, uid, NULL)
              /\ UNCHANGED << files, seq, issued, hashed, disk, backups >>
       ELSE IF existing_h # {}
         THEN /\ last' = Step("handle_file", u, "dup_hash",
                              (CHOOSE r \in existing_h : TRUE).id, req.subj, uid, content_hash)
              /\ hashed' = done
              /\ disk' = saved \ {req.local_path}
              /\ UNCHANGED << files, seq, issued >>
       ELSE IF /\ \E r \in existing_u : r.is_deleted = 1
               /\ UpdateViolatesUnique(files, LIBRARY_ID,
                                       (CHOOSE r \in existing_u : TRUE).id, content_hash)
         THEN \* sqlite3.IntegrityError out of the UPDATE: nothing catches it
              /\ last' = Step("handle_file", u, "unhandled", NullId, req.subj, uid, content_hash)
              /\ hashed' = done
              /\ disk' = saved
              /\ UNCHANGED << files, seq, issued >>
       ELSE IF \E r \in existing_u : r.is_deleted = 1
         THEN /\ files' = update_existing_file_from_duplicate(
                              files, LIBRARY_ID, (CHOOSE r \in existing_u : TRUE).id,
                              req.filename, req.caption, req.local_path, content_hash)
              /\ disk' = saved
              /\ last' = Step("handle_file", u, "restored",
                              (CHOOSE r \in existing_u : TRUE).id, req.subj, uid, content_hash)
              /\ hashed' = done
              /\ UNCHANGED << seq, issued >>
       ELSE IF ViolatesUnique(files, LIBRARY_ID, uid, content_hash)
         THEN /\ last' = Step("handle_file", u, "dup_db", NullId, req.subj, uid, content_hash)
              /\ hashed' = done
              /\ disk' = saved \ {req.local_path}
              /\ UNCHANGED << files, seq, issued >>
       ELSE /\ seq < MaxId
            /\ Len(issued) < MaxId
            /\ files' = files \cup {row}
            /\ seq' = row.id
            /\ issued' = Append(issued, row.id)
            /\ last' = Step("handle_file", u, "added", row.id, req.subj, uid, content_hash)
            /\ hashed' = done
            /\ disk' = saved
    /\ UNCHANGED << user_data, now, ticks, declared, backups >>

\* the limit cb_subject passes to list_files_by_subject
SUBJECT_PAGE == 50

\* cb_subject: anyone opens a subject of the menu and is shown its files, or
\* is told that it has none
cb_subject(u, subject) ==
    LET rows == list_files_by_subject(files, LIBRARY_ID, subject, SUBJECT_PAGE)
    IN
    /\ last' = Step("cb_subject", u, IF rows = << >> THEN "no_files" ELSE "listed",
                    NullId, subject, NULL, NULL)
    /\ UNCHANGED << files, seq, user_data, now, ticks, inflight, issued, hashed, declared, disk, backups >>

\* cb_open_file: anyone opens a row by id; a missing or trashed row is
\* reported as not found, otherwise the file is sent, if Telegram lets it
cb_open_file(u, file_id, send_ok) ==
    LET row == get_file_by_id(files, LIBRARY_ID, file_id)
    IN
    /\ last' = Step("cb_open_file", u,
                    IF row = {} \/ \E r \in row : r.is_deleted = 1 THEN "not_found"
                    ELSE IF send_ok THEN "sent" ELSE "send_failed",
                    file_id, NullText, NULL, NULL)
    /\ UNCHANGED << files, seq, user_data, now, ticks, inflight, issued, hashed, declared, disk, backups >>

\* cb_trash_open: an administrator opens a row of the trash by id
cb_trash_open(u, file_id) ==
    LET row == get_file_by_id(files, LIBRARY_ID, file_id)
    IN
    /\ last' = Step("cb_trash_open", u,
                    IF ~ is_admin(u) THEN "not_admin"
                    ELSE IF row = {} \/ \E r \in row : r.is_deleted # 1 THEN "not_in_trash"
                    ELSE "shown",
                    IF is_admin(u) THEN file_id ELSE NullId, NullText, NULL, NULL)
    /\ UNCHANGED << files, seq, user_data, now, ticks, inflight, issued, hashed, declared, disk, backups >>

\* cb_fav: an administrator toggles the favorite flag of an active row
cb_fav(u, file_id) ==
    LET row == get_file_by_id(files, LIBRARY_ID, file_id)
    IN
    /\ IF ~ is_admin(u)
         THEN /\ last' = Step("cb_fav", u, "not_admin", NullId, NullText, NULL, NULL)
              /\ UNCHANGED files
       ELSE IF row = {} \/ \E r \in row : r.is_deleted = 1
         THEN /\ last' = Step("cb_fav", u, "not_found", file_id, NullText, NULL, NULL)
              /\ UNCHANGED files
       ELSE /\ files' = set_fav(files, LIBRARY_ID, file_id,
                                IF \E r \in row : r.is_fav # 0 THEN 0 ELSE 1)
            /\ last' = Step("cb_fav", u, "updated", file_id, NullText, NULL, NULL)
    /\ UNCHANGED << seq, user_data, now, ticks, inflight, issued, hashed, declared, disk, backups >>

\* cb_del: an administrator moves a row to the trash
cb_del(u, file_id) ==
    /\ IF ~ is_admin(u)
         THEN /\ last' = Step("cb_del", u, "not_admin", NullId, NullText, NULL, NULL)
              /\ UNCHANGED files
         ELSE /\ files' = soft_delete_file(files, LIBRARY_ID, file_id, now)
              /\ last' = Step("cb_del", u, "trashed", file_id, NullText, NULL, NULL)
    /\ UNCHANGED << seq, user_data, now, ticks, inflight, issued, hashed, declared, disk, backups >>

\* cb_restore: an administrator takes a row out of the trash
cb_restore(u, file_id) ==
    /\ IF ~ is_admin(u)
         THEN /\ last' = Step("cb_restore", u, "not_admin", NullId, NullText, NULL, NULL)
              /\ UNCHANGED files
         ELSE /\ files' = restore_file(files, LIBRARY_ID, file_id)
              /\ last' = Step("cb_restore", u, "restored", file_id, NullText, NULL, NULL)
    /\ UNCHANGED << seq, user_data, now, ticks, inflight, issued, hashed, declared, disk, backups >>

\* cb_hard_delete: an administrator deletes a row for good
cb_hard_delete(u, file_id, unlink_ok) ==
    /\ IF ~ is_admin(u)
         THEN /\ last' = Step("cb_hard_delete", u, "not_admin", NullId, NullText, NULL, NULL)
              /\ UNCHANGED files
              /\ UNCHANGED disk
         ELSE /\ files' = hard_delete_file(files, disk, LIBRARY_ID, file_id, unlink_ok).files
              /\ disk' = hard_delete_file(files, disk, LIBRARY_ID, file_id, unlink_ok).disk
              /\ last' = Step("cb_hard_delete", u,
                              IF ~ unlink_ok /\ hard_delete_file_unlinks(files, LIBRARY_ID, file_id) # {}
                                  THEN "deleted_unlink_failed" ELSE "deleted",
                              file_id, NullText, NULL, NULL)
    /\ UNCHANGED << seq, user_data, now, ticks, inflight, issued, hashed, declared, backups >>

\* /purge_trash
purge_trash_cmd(u) ==
    /\ IF ~ is_admin(u)
         THEN /\ last' = Step("purge_trash_cmd", u, "not_admin", NullId, NullText, NULL, NULL)
              /\ UNCHANGED files
         ELSE /\ files' = purge_trash(files, LIBRARY_ID, now)
              /\ last' = Step("purge_trash_cmd", u, "purged", NullId, NullText, NULL, NULL)
    /\ UNCHANGED << seq, user_data, now, ticks, inflight, issued, hashed, declared, disk, backups >>

-----------------------------------------------------------------------------
(* The store functions, called for any owner. The handlers above call them
   for LIBRARY_ID alone; a database that was seeded, or that served another
   library before, holds rows of other owners too. *)

Owners == Users

\* add_file_row for owner o: the insert, or sqlite3.IntegrityError
AddFileRow(o, up) ==
    LET content_hash == sha256_file(up.content)
        name == safe_filename(up.file_name, FallbackName)
        row == NewRow(files, seq, o, Linguistics, up.tg_unique_id, name, NullText,
                      Path(Linguistics, now, name), content_hash, now)
    IN
    /\ IF ViolatesUnique(files, o, up.tg_unique_id, content_hash)
         THEN /\ last' = Step("add_file_row", o, "integrity_error", NullId, Linguistics,
                              up.tg_unique_id, content_hash)
              /\ UNCHANGED << files, seq, issued, disk >>
         ELSE /\ seq < MaxId
              /\ Len(issued) < MaxId
              /\ files' = files \cup {row}
              /\ seq' = row.id
              /\ issued' = Append(issued, row.id)
              /\ disk' = disk \cup {row.local_path}
              /\ last' = Step("add_file_row", o, "added", row.id, Linguistics,
                              up.tg_unique_id, content_hash)
    /\ UNCHANGED << user_data, now, ticks, inflight, hashed, declared, backups >>

SetFav(o, file_id, fav) ==
    /\ files' = set_fav(files, o, file_id, fav)
    /\ last' = Step("set_fav", o, "done", file_id, NullText, NULL, NULL)
    /\ UNCHANGED << seq, user_data, now, ticks, inflight, issued, hashed, declared, disk, backups >>

SoftDeleteFile(o, file_id) ==
    /\ files' = soft_delete_file(files, o, file_id, now)
    /\ last' = Step("soft_delete_file", o, "done", file_id, NullText, NULL, NULL)
    /\ UNCHANGED << seq, user_data, now, ticks, inflight, issued, hashed, declared, disk, backups >>

RestoreFile(o, file_id) ==
    /\ files' = restore_file(files, o, file_id)
    /\ last' = Step("restore_file", o, "done", file_id, NullText, NULL, NULL)
    /\ UNCHANGED << seq, user_data, now, ticks, inflight, issued, hashed, declared, disk, backups >>

PurgeTrash(o) ==
    /\ files' = purge_trash(files, o, now)
    /\ last' = Step("purge_trash", o, "done", NullId, NullText, NULL, NULL)
    /\ UNCHANGED << seq, user_data, now, ticks, inflight, issued, hashed, declared, disk, backups >>

HardDeleteFile(o, file_id) ==
    /\ files' = hard_delete_file(files, disk, o, file_id, TRUE).files
    /\ disk' = hard_delete_file(files, disk, o, file_id, TRUE).disk
    /\ last' = Step("hard_delete_file", o, "done", file_id, NullText, NULL, NULL)
    /\ UNCHANGED << seq, user_data, now, ticks, inflight, issued, hashed, declared, backups >>

NextStore ==
    \/ \E o \in Owners, up \in DistinctUploads : AddFileRow(o, up)
    \/ \E o \in Owners, id \in 1..MaxId : SetFav(o, id, 1)
    \/ \E o \in Owners, id \in 1..MaxId : SoftDeleteFile(o, id)
    \/ \E o \in Owners, id \in 1..MaxId : RestoreFile(o, id)
    \/ \E o \in Owners : PurgeTrash(o)
    \/ \E o \in Owners, id \in 1..MaxId : HardDeleteFile(o, id)
    \/ Tick(RetentionSeconds + 1)

SpecStore == Init /\ [][NextStore]_vars

-----------------------------------------------------------------------------
(* The specification: every handler, on every input *)

\* the seconds the snapshots in the directory were taken in
BackupTimes == {b.at : b \in backups}

Next ==
    \/ \E d \in Deltas : Tick(d)
    \/ \E u \in Users : start(u)
    \/ \E u \in Users, t \in Texts : handle_text(u, t, Sound)
    \/ \E u \in Users, io \in Faults(BackupTimes) : handle_text(u, BTN_BACKUP, io)
    \/ \E io \in Faults(BackupTimes) : auto_backup_job(io)
    \/ \E u \in Users : restore_latest(u)
    \/ \E u \in Users, up \in Uploads, cap \in Captions : HandleFileBegin(u, up, cap, Slots)
    \/ \E k \in Slots, dl \in BOOLEAN, h \in BOOLEAN : HandleFileFinish(k, dl, h)
    \/ \E u \in Users, i \in DOMAIN SUBJECTS : cb_subject(u, SUBJECTS[i])
    \/ \E u \in Users, id \in FileIds, ok \in BOOLEAN : cb_open_file(u, id, ok)
    \/ \E u \in Users, id \in FileIds : cb_trash_open(u, id)
    \/ \E u \in Users, id \in FileIds : cb_fav(u, id)
    \/ \E u \in Users, id \in FileIds : cb_del(u, id)
    \/ \E u \in Users, id \in FileIds : cb_restore(u, id)
    \/ \E u \in Users, id \in FileIds, ok \in BOOLEAN : cb_hard_delete(u, id, ok)
    \/ \E u \in Users : purge_trash_cmd(u)

Spec == Init /\ [][Next]_vars

-----------------------------------------------------------------------------
(* Submissions alone: a subject is declared, and media messages arrive, two
   of them possibly suspended at their downloads at once; the download and
   the hash may each fail. Nothing is trashed and the clock stands still. *)

DeclareText == <<" ","l","i","n","g","u","i","s","t","i","c","S"," ">>

NextSubmit ==
    \/ \E u \in ADMIN_IDS : handle_text(u, DeclareText, Sound)
    \/ \E u \in ADMIN_IDS, up \in Uploads : HandleFileBegin(u, up, NullText, Slots)
    \/ \E k \in Slots, dl \in BOOLEAN, h \in BOOLEAN : HandleFileFinish(k, dl, h)

SpecSubmit == Init /\ [][NextSubmit]_vars

(* Submissions and the trash: one payload comes in under two identities,
   and an administrator moves rows to the trash and back. *)

NextDedup ==
    \/ \E u \in ADMIN_IDS : handle_text(u, DeclareText, Sound)
    \/ \E u \in ADMIN_IDS, up \in TwinUploads : HandleFileBegin(u, up, NullText, Slots)
    \/ \E k \in Slots, dl \in BOOLEAN, h \in BOOLEAN : HandleFileFinish(k, dl, h)
    \/ \E id \in 1..MaxId : cb_del(OWNER_ID, id)
    \/ \E id \in 1..MaxId : cb_restore(OWNER_ID, id)

SpecDedup == Init /\ [][NextDedup]_vars

(* What the listings show: one administrator, one request at a time; rows
   are stored with and without a caption, starred, trashed, restored and
   deleted for good. *)

NextQuery ==
    \/ handle_text(OWNER_ID, DeclareText, Sound)
    \/ \E up \in DistinctUploads, cap \in Captions : HandleFileBegin(OWNER_ID, up, cap, {1})
    \/ HandleFileFinish(1, TRUE, TRUE)
    \/ \E id \in 1..MaxId, ok \in BOOLEAN : cb_open_file(OWNER_ID, id, ok)
    \/ \E id \in 1..MaxId : cb_trash_open(OWNER_ID, id)
    \/ \E id \in 1..MaxId : cb_fav(OWNER_ID, id)
    \/ \E id \in 1..MaxId : cb_del(OWNER_ID, id)
    \/ \E id \in 1..MaxId : cb_restore(OWNER_ID, id)

SpecQuery == Init /\ [][NextQuery]_vars

(* The trash and the clock: rows are trashed and purged while the clock
   moves around the retention horizon. *)

TrashDeltas == {1, RetentionSeconds - 1, RetentionSeconds}

NextPurge ==
    \/ handle_text(OWNER_ID, DeclareText, Sound)
    \/ \E up \in DistinctUploads : HandleFileBegin(OWNER_ID, up, NullText, {1})
    \/ HandleFileFinish(1, TRUE, TRUE)
    \/ \E id \in 1..MaxId : cb_del(OWNER_ID, id)
    \/ purge_trash_cmd(OWNER_ID)
    \/ \E d \in TrashDeltas : Tick(d)

SpecPurge == Init /\ [][NextPurge]_vars

(* Rows leave the table: they are trashed, restored, deleted for good from
   the trash screen, and purged; the clock moves a retention period at a
   time. *)

NextTrash ==
    \/ handle_text(OWNER_ID, DeclareText, Sound)
    \/ \E up \in DistinctUploads : HandleFileBegin(OWNER_ID, up, NullText, {1})
    \/ HandleFileFinish(1, TRUE, TRUE)
    \/ \E id \in 1..MaxId : cb_del(OWNER_ID, id)
    \/ \E id \in 1..MaxId : cb_restore(OWNER_ID, id)
    \/ \E id \in 1..MaxId, ok \in BOOLEAN : cb_hard_delete(OWNER_ID, id, ok)
    \/ purge_trash_cmd(OWNER_ID)
    \/ Tick(RetentionSeconds)

SpecTrash == Init /\ [][NextTrash]_vars

(* Sessions: an administrator types texts and sends files, with and without
   captions, one request at a time, while the clock moves around the expiry
   of the sticky subject. *)

SessionDeltas == {1, FIXED_TTL - 1, FIXED_TTL + 1}

NextSession ==
    \/ start(OWNER_ID)
    \/ \E t \in Texts : handle_text(OWNER_ID, t, Sound)
    \/ \E up \in DistinctUploads, cap \in Captions : HandleFileBegin(OWNER_ID, up, cap, {1})
    \/ HandleFileFinish(1, TRUE, TRUE)
    \/ \E d \in SessionDeltas : Tick(d)

SpecSession == Init /\ [][NextSession]_vars

(* Snapshots: a file is stored while snapshots are taken, by the button and
   by the periodic job; the clock moves a second at a time, and the writing
   of a snapshot and each unlink of the cleanup may fail. *)

FirstUpload == {up \in Uploads : up.tg_unique_id = "u1"}

NextBackup ==
    \/ handle_text(OWNER_ID, DeclareText, Sound)
    \/ \E up \in FirstUpload : HandleFileBegin(OWNER_ID, up, NullText, {1})
    \/ HandleFileFinish(1, TRUE, TRUE)
    \/ \E io \in Faults(BackupTimes) : handle_text(OWNER_ID, BTN_BACKUP, io)
    \/ \E io \in Faults(BackupTimes) : auto_backup_job(io)
    \/ Tick(1)

SpecBackup == Init /\ [][NextBackup]_vars

(* Back to a snapshot: a file is stored, starred and trashed, snapshots are
   taken and the latest is restored, while the clock moves a second at a
   time. *)

NextRestore ==
    \/ handle_text(OWNER_ID, DeclareText, Sound)
    \/ \E up \in FirstUpload : HandleFileBegin(OWNER_ID, up, NullText, {1})
    \/ HandleFileFinish(1, TRUE, TRUE)
    \/ cb_fav(OWNER_ID, 1)
    \/ cb_del(OWNER_ID, 1)
    \/ handle_text(OWNER_ID, BTN_BACKUP, Sound)
    \/ restore_latest(OWNER_ID)
    \/ Tick(1)

SpecRestore == Init /\ [][NextRestore]_vars

(* Ids across a restore: files are stored and deleted for good, snapshots
   are taken and the latest is restored. *)

NextReissue ==
    \/ handle_text(OWNER_ID, DeclareText, Sound)
    \/ \E up \in DistinctUploads : HandleFileBegin(OWNER_ID, up, NullText, {1})
    \/ HandleFileFinish(1, TRUE, TRUE)
    \/ \E id \in 1..MaxId : cb_hard_delete(OWNER_ID, id, TRUE)
    \/ handle_text(OWNER_ID, BTN_BACKUP, Sound)
    \/ restore_latest(OWNER_ID)

SpecReissue == Init /\ [][NextReissue]_vars

(* Guests: an administrator and a user who is none both send every request
   that writes: texts that name a subject, a file, the buttons of a file
   and of the trash, the purge, the snapshot and the restore. *)

NextGuest ==
    \/ \E u \in Users : handle_text(u, DeclareText, Sound)
    \/ \E u \in Users, up \in FirstUpload : HandleFileBegin(u, up, NullText, {1})
    \/ HandleFileFinish(1, TRUE, TRUE)
    \/ \E u \in Users : cb_fav(u, 1)
    \/ \E u \in Users : cb_del(u, 1)
    \/ \E u \in Users : cb_restore(u, 1)
    \/ \E u \in Users : cb_hard_delete(u, 1, TRUE)
    \/ \E u \in Users : purge_trash_cmd(u)
    \/ \E u \in Users : handle_text(u, BTN_BACKUP, Sound)
    \/ \E u \in Users : restore_latest(u)

SpecGuest == Init /\ [][NextGuest]_vars

(* The life of a sticky subject: an administrator declares subjects, one
   after another, and in between sends every other request there is, while
   the clock moves around the expiry. The snapshot directory cannot be
   written, so that no snapshot is taken and none is there to restore. *)

Unwritable == [backup_ok |-> FALSE, stuck |-> {}]

BindingTexts ==
    { DeclareText, <<"p","o","e","t","r","y">>, BTN_SEARCH }

\* the clock reaches the expiry of a subject declared now, then passes it
BindingDeltas == {FIXED_TTL}

NextBinding ==
    \/ start(OWNER_ID)
    \/ \E t \in BindingTexts : handle_text(OWNER_ID, t, Sound)
    \/ handle_text(OWNER_ID, BTN_BACKUP, Unwritable)
    \/ \E up \in FirstUpload : HandleFileBegin(OWNER_ID, up, NullText, {1})
    \/ HandleFileFinish(1, TRUE, TRUE)
    \/ cb_subject(OWNER_ID, Linguistics)
    \/ cb_open_file(OWNER_ID, 1, TRUE)
    \/ cb_trash_open(OWNER_ID, 1)
    \/ cb_fav(OWNER_ID, 1)
    \/ cb_del(OWNER_ID, 1)
    \/ cb_restore(OWNER_ID, 1)
    \/ cb_hard_delete(OWNER_ID, 1, TRUE)
    \/ purge_trash_cmd(OWNER_ID)
    \/ restore_latest(OWNER_ID)
    \/ auto_backup_job(Unwritable)
    \/ \E d \in BindingDeltas : Tick(d)

SpecBinding == Init /\ [][NextBinding]_vars

(* A library that has grown: n files of different payloads were stored under
   Linguistics, one after the other, and the session was then reset with
   /start. Its subjects are opened from the menu while rows are trashed and
   restored. *)

\* the decimal digits of i < 100, as text
DigitsOf(i) ==
    IF i < 10 THEN << ToString(i) >> ELSE << ToString(i \div 10), ToString(i % 10) >>

\* the i-th file sent
NthUpload(i) ==
    [ tg_unique_id |-> "m" \o ToString(i),
      content      |-> "b" \o ToString(i),
      file_name    |-> << "f" >> \o DigitsOf(i) ]

\* the row handle_file stores for it
NthRow(i) ==
    LET up == NthUpload(i)
        name == safe_filename(up.file_name, FallbackName)
    IN  NewRow({}, i - 1, LIBRARY_ID, Linguistics, up.tg_unique_id, name, NullText,
               Path(Linguistics, 0, name), sha256_file(up.content), 0)

Stored(n) == {NthRow(i) : i \in 1..n}

LibrarySizes == {1, SUBJECT_PAGE, SUBJECT_PAGE + 1}

InitListing ==
    \E n \in LibrarySizes :
        /\ files = Stored(n)
        /\ seq = n
        /\ issued = [i \in 1..n |-> i]
        /\ hashed = { [content_hash |-> r.content_hash, tg_unique_id |-> r.tg_unique_id] :
                        r \in Stored(n) }
        /\ disk = {r.local_path : r \in Stored(n)}
        /\ backups = {}
        /\ user_data = [u \in Users |-> EmptyData]
        /\ declared = [u \in Users |-> NoDeclaration]
        /\ now = 0
        /\ ticks = 0
        /\ inflight = [k \in Slots |-> Idle]
        /\ last = Step("start", OWNER_ID, "welcome", NullId, NullText, NULL, NULL)

\* the oldest rows and the latest
ListingIds == {1, 2, SUBJECT_PAGE, SUBJECT_PAGE + 1}

NextListing ==
    \/ \E u \in Users, subject \in {Linguistics, Poetry} : cb_subject(u, subject)
    \/ \E id \in ListingIds : cb_del(OWNER_ID, id)
    \/ \E id \in ListingIds : cb_restore(OWNER_ID, id)

SpecListing == InitListing /\ [][NextListing]_vars

-----------------------------------------------------------------------------
(* Uniqueness of content *)

ActiveWithHash(user_id, h) ==
    {r \in RowsOf(files, user_id) : r.is_deleted = 0 /\ r.content_hash = h}

AllDone == \A k \in Slots : ~ inflight[k].busy

Hashes == {sha256_file(up.content) : up \in Uploads}

DegradedHolder(uid) ==
    \E r \in RowsOf(files, LIBRARY_ID) : r.content_hash = NULL /\ r.tg_unique_id = uid

-----------------------------------------------------------------------------
(* Steps, as seen from a pair of states *)

\* handle_file has just finished the request suspended in slot k
Finishes(k) ==
    /\ inflight[k].busy
    /\ ~ inflight'[k].busy
    /\ last'.op = "handle_file"

\* the count the subjects menu shows for a subject
CountOf(F, subject) ==
    LET c == count_by_subject(F, LIBRARY_ID)
    IN  IF subject \in DOMAIN c THEN c[subject] ELSE 0

TrashCount(F) == Len(list_trash(F, LIBRARY_ID, 50))

-----------------------------------------------------------------------------
(* Restore on re-upload *)

\* C2 as stated: when a submission hashes to the content_hash of a trashed
\* row R, then after it R is active again under the same id, no row has
\* been added, the count of R's subject is one more and the trash count one
\* less.
C2_RestoreOnReupload ==
    [][ \A k \in Slots : \A r \in RowsOf(files, LIBRARY_ID) :
          ( /\ Finishes(k)
            /\ last'.content_hash # NULL
            /\ r.is_deleted = 1
            /\ r.content_hash = last'.content_hash )
          => /\ \E q \in files' : q.id = r.id /\ q.is_deleted = 0 /\ q.deleted_at = NullTime
             /\ Cardinality(files') = Cardinality(files)
             /\ CountOf(files', r.subject) = CountOf(files, r.subject) + 1
             /\ TrashCount(files') = TrashCount(files) - 1
      ]_vars

-----------------------------------------------------------------------------
(* The content hash is authoritative *)

-----------------------------------------------------------------------------
(* The trash is out of sight *)

\* What a user may type into the search box
Queries == { <<"a","b">>, <<"a">>, <<"_">> }

Active(F, user_id) == {r \in RowsOf(F, user_id) : r.is_deleted = 0}
Trashed(F, user_id) == {r \in RowsOf(F, user_id) : r.is_deleted = 1}

\* C4: a trashed row is in no listing by subject, in no search result, not
\* among the favourites nor the recent files, and is not counted under its
\* subject; an active row (a restored one included) is listed under its
\* subject and among the recent files.
C4_TrashedRowsHidden ==
    /\ \A r \in Trashed(files, LIBRARY_ID) :
          /\ \A i \in DOMAIN SUBJECTS :
                r.id \notin SeqToSet(list_files_by_subject(files, LIBRARY_ID, SUBJECTS[i], 50))
          /\ \A q \in Queries :
                r.id \notin SeqToSet(search_files(files, LIBRARY_ID, q, 30))
          /\ r.id \notin SeqToSet(list_favorites(files, LIBRARY_ID, 50))
          /\ r.id \notin SeqToSet(list_recent(files, LIBRARY_ID, 12))
          /\ CountOf(files, r.subject)
               + Cardinality({x \in Trashed(files, LIBRARY_ID) : x.subject = r.subject})
               = Cardinality({x \in RowsOf(files, LIBRARY_ID) : x.subject = r.subject})
    /\ \A r \in Active(files, LIBRARY_ID) :
          /\ r.id \in SeqToSet(list_files_by_subject(files, LIBRARY_ID, r.subject, 50))
          /\ r.id \in SeqToSet(list_recent(files, LIBRARY_ID, 12))

\* A starred row whose caption matches a query has just been trashed, while
\* another row of the same subject is still listed.
C4_Witness ==
    /\ last.op = "cb_del"
    /\ \E r \in Trashed(files, LIBRARY_ID) :
          /\ r.id = last.id
          /\ r.is_fav = 1
          /\ ColumnLike(r.caption, <<"%","a","b","%">>)
          /\ \E x \in Active(files, LIBRARY_ID) :
                /\ x.subject = r.subject
                /\ search_files(files, LIBRARY_ID, <<"a","b">>, 30) = << x.id >>

-----------------------------------------------------------------------------
(* The retention horizon *)

\* the step is a purge run by an administrator
Purges == last'.op = "purge_trash_cmd" /\ last'.kind = "purged"

Age(r) == now - r.deleted_at

\* C5: a purge leaves in place, unchanged, every active row and every
\* trashed row whose age is less than the retention period.
C5_PurgeKeepsRecent ==
    [][ Purges =>
          \A r \in RowsOf(files, LIBRARY_ID) :
              (r.is_deleted = 0 \/ Age(r) < RetentionSeconds) => r \in files'
      ]_vars

\* A purge has just run over an active row and over a row trashed one
\* second less than the retention period ago; both are still there.
C5_Witness ==
    /\ last.op = "purge_trash_cmd"
    /\ \E r \in Trashed(files, LIBRARY_ID) : Age(r) = RetentionSeconds - 1
    /\ Active(files, LIBRARY_ID) # {}

\* C6 as stated: a purge removes every trashed row whose age is at least the
\* retention period, the row whose age is exactly the period included.
C6_Original ==
    [][ Purges =>
          \A r \in Trashed(files, LIBRARY_ID) :
              Age(r) >= RetentionSeconds => r.id \notin {x.id : x \in files'}
      ]_vars

\* C6, amended: a purge removes every trashed row whose age is more than the
\* retention period, and keeps the row whose age is exactly the period.
C6_PurgeRemovesPastHorizon ==
    [][ Purges =>
          \A r \in Trashed(files, LIBRARY_ID) :
              /\ Age(r) > RetentionSeconds => r.id \notin {x.id : x \in files'}
              /\ Age(r) = RetentionSeconds => r \in files'
      ]_vars

\* Two rows were stored and trashed one second apart; a purge has run when
\* the younger one was exactly one retention period old: it is the only row
\* left.
C6_Witness ==
    /\ last.op = "purge_trash_cmd"
    /\ Len(issued) = 2
    /\ \E r \in Trashed(files, LIBRARY_ID) :
          /\ files = {r}
          /\ Age(r) = RetentionSeconds

-----------------------------------------------------------------------------
(* Identifiers *)

\* C7: the ids handed out by add_file_row are strictly increasing, and every
\* row carries an id that was handed out, no two rows the same one.
C7_IdsNeverReused ==
    /\ \A i, j \in 1..Len(issued) : i < j => issued[i] < issued[j]
    /\ \A r \in files : r.id \in SeqToSet(issued)
    /\ \A r, x \in files : r.id = x.id => r = x

\* The first row is gone from the table, and the row stored after it got a
\* greater id.
C7_Witness ==
    /\ last.op = "handle_file"
    /\ last.kind = "added"
    /\ issued = << 1, 2 >>
    /\ {r.id : r \in files} = {2}

-----------------------------------------------------------------------------
(* The subject of a submission *)

\* handle_file has just received a file from u and answered before any
\* download: it asked for a subject, named a duplicate, or went on
Receives(u) ==
    /\ last'.op = "handle_file"
    /\ last'.user = u
    /\ last'.kind \in {"need_subject", "dup_unique", "downloading"}

Expiry(u) == declared[u].at + FIXED_TTL

\* C8: a file received before the expiry of the subject the administrator
\* declared is handled under that subject; a file received after the expiry
\* gets no subject; and the passing of time alone changes nothing in the
\* session.
C8_StickyExpiry ==
    [][ /\ \A u \in ADMIN_IDS :
              (Receives(u) /\ declared[u] # NoDeclaration) =>
                  /\ now < Expiry(u) => last'.subj = declared[u].subject
                  /\ now > Expiry(u) =>
                        last'.kind = "need_subject" /\ last'.subj = NullText
        /\ last'.op = "tick" => user_data' = user_data
      ]_vars

\* A file sent one second after the expiry of the declared subject has been
\* turned away for want of a subject.
C8_Witness ==
    /\ last.op = "handle_file"
    /\ last.kind = "need_subject"
    /\ declared[OWNER_ID].subject = Linguistics
    /\ now = Expiry(OWNER_ID) + 1

\* no subject was declared since /start, or the declaration has expired
NoLiveBinding(u) == declared[u] = NoDeclaration \/ now > Expiry(u)

\* C9 as stated: a file an administrator sends while no subject is bound is
\* not turned away.
C9_Original ==
    [][ \A u \in ADMIN_IDS :
          (Receives(u) /\ NoLiveBinding(u)) => last'.kind # "need_subject"
      ]_vars

\* C9, amended: a file an administrator sends while no subject is bound is
\* turned away with a request for a subject; nothing is stored and no
\* download is started.
C9_RejectedWithoutSubject ==
    [][ \A u \in ADMIN_IDS :
          (Receives(u) /\ NoLiveBinding(u)) =>
              /\ last'.kind = "need_subject"
              /\ files' = files
              /\ seq' = seq
              /\ inflight' = inflight
      ]_vars

\* An administrator who never declared a subject sent a file; it was turned
\* away and the table is empty.
C9_Witness ==
    /\ last.op = "handle_file"
    /\ last.user = OWNER_ID
    /\ last.kind = "need_subject"
    /\ declared[OWNER_ID] = NoDeclaration
    /\ files = {}

\* C10 as stated: a file whose caption starts with a configured subject is
\* stored under that subject, with the rest of the caption as its note.
C10_Original ==
    [][ \A k \in Slots :
          ( /\ Finishes(k)
            /\ last'.kind = "added"
            /\ CaptionHint(inflight[k].caption) # NullText )
          => \E r \in files' \ files :
                /\ r.subject = CaptionHint(inflight[k].caption)
                /\ r.caption = CaptionRest(inflight[k].caption)
      ]_vars

\* the captions a message may carry, as handle_file reads them
StrippedCaptions == {CaptionOf(cap) : cap \in Captions}

\* C10, amended: a request goes to the download under the subject the
\* sender declared, with the whole stripped caption; the row stored for it
\* has that subject and that caption, whatever the caption names.
C10_BindingDecidesSubject ==
    [][ \A k \in Slots :
          /\ (~ inflight[k].busy /\ inflight'[k].busy) =>
                /\ inflight'[k].subj = declared[inflight'[k].user].subject
                /\ inflight'[k].caption \in StrippedCaptions
          /\ (Finishes(k) /\ last'.kind = "added") =>
                \E r \in files' \ files :
                    /\ r.subject = inflight[k].subj
                    /\ r.caption = inflight[k].caption
      ]_vars

\* A file captioned "Poetry - ab", sent while Linguistics was bound, has
\* been stored under Linguistics with the whole caption.
C10_Witness ==
    /\ last.op = "handle_file"
    /\ last.kind = "added"
    /\ \E r \in files :
          /\ r.id = last.id
          /\ r.subject = Linguistics
          /\ CaptionHint(r.caption) = Poetry
          /\ r.caption = <<"P","o","e","t","r","y"," ","-"," ","a","b">>

-----------------------------------------------------------------------------
(* The life of a record *)

\* C11 as stated: moving to the trash a row that is already there changes
\* nothing in the table; its deleted_at stays that of the first deletion.
C11_SoftDeleteIdempotent ==
    [][ (last'.op = "cb_del" /\ last'.kind = "trashed") =>
          ( (\E r \in Trashed(files, LIBRARY_ID) : r.id = last'.id)
            => files' = files )
      ]_vars

\* C12: cb_restore by an administrator always answers; when the row it names
\* is not in the trash (it is active, or there is no such row) the table is
\* unchanged; when it is in the trash, that row becomes active with
\* deleted_at cleared and every other row stays as it was.
C12_RestoreOnlyTrashed ==
    [][ (last'.op = "cb_restore" /\ last'.user \in ADMIN_IDS) =>
          LET T == {r \in Trashed(files, LIBRARY_ID) : r.id = last'.id}
          IN  /\ last'.kind = "restored"
              /\ files' = (files \ T) \cup
                     {[r EXCEPT !.is_deleted = 0, !.deleted_at = NullTime] : r \in T}
      ]_vars

\* cb_restore has just been applied to the id of a row that had been stored
\* and has since been removed, next to a row that is still in the trash.
C12_Witness ==
    /\ last.op = "cb_restore"
    /\ last.id \in SeqToSet(issued)
    /\ last.id \notin {r.id : r \in files}
    /\ Trashed(files, LIBRARY_ID) # {}

\* the row is in the table before the step and not after it
Removed(r) == r.id \notin {x.id : x \in files'}

-----------------------------------------------------------------------------
(* Payloads on disk *)

\* C14 as stated: when a purge removes a row, the payload saved at the
\* row's local_path is no longer on disk after the purge.
C14_PurgeReleasesPayload ==
    [][ Purges =>
          \A r \in files :
              (Removed(r) /\ r.local_path # NullPath) => r.local_path \notin disk'
      ]_vars

-----------------------------------------------------------------------------
(* Identity and content of a submission *)

\* C15 as stated: a submission that got its payload and carries the
\* tg_unique_id of a trashed row ends with that row active again, under the
\* same id, and with no row added.
C15_RestoreByIdentity ==
    [][ \A k \in Slots : \A r \in Trashed(files, LIBRARY_ID) :
          ( /\ Finishes(k)
            /\ last'.kind # "download_failed"
            /\ r.tg_unique_id = inflight[k].upload.tg_unique_id )
          => /\ \E q \in files' : q.id = r.id /\ q.is_deleted = 0
             /\ Cardinality(files') = Cardinality(files)
      ]_vars

\* C16: among the rows of one user, active or trashed, no two have the same
\* non-null tg_unique_id and no two the same non-null content_hash.
C16_UniquePerOwner ==
    \A u \in Users : \A r, q \in RowsOf(files, u) :
        r # q =>
            /\ (r.tg_unique_id # NULL => r.tg_unique_id # q.tg_unique_id)
            /\ (r.content_hash # NULL => r.content_hash # q.content_hash)
            /\ r.id # q.id

\* A row stored without a hash was trashed and has come back through a new
\* upload that gave it its hash, next to a second row of another identity.
C16_Witness ==
    /\ last.op = "handle_file"
    /\ last.kind = "restored"
    /\ Cardinality(files) = 2
    /\ \E r \in files : r.id = last.id /\ r.content_hash = last.content_hash
    /\ last.content_hash # NULL

-----------------------------------------------------------------------------
(* Overlapping submissions *)

\* the payload behind a tg_unique_id
ContentOf(uid) == (CHOOSE up \in Uploads : up.tg_unique_id = uid).content

RowsOfContent(F, c) == {r \in RowsOf(F, LIBRARY_ID) : ContentOf(r.tg_unique_id) = c}

\* the rows with the payload of request k that were stored while the
\* request was suspended, that is, by a request overlapping it
StoredMeanwhile(k) ==
    {r \in RowsOfContent(files, inflight[k].upload.content) :
        r.id \notin inflight[k].rows_at_begin}

Duplicate == {"dup_hash", "dup_db"}

\* C17 as stated: when a request finishes after an overlapping request has
\* stored the same payload, it ends as a duplicate, adds nothing, and the
\* payload has one row.
C17_Original ==
    [][ \A k \in Slots :
          ( /\ Finishes(k)
            /\ last'.kind # "download_failed"
            /\ StoredMeanwhile(k) # {} )
          => /\ last'.kind \in Duplicate
             /\ files' = files
             /\ Cardinality(RowsOfContent(files', inflight[k].upload.content)) <= 1
      ]_vars

\* C17, amended: no request ends in an unhandled error; and when a request
\* finishes after an overlapping request has stored the same payload, it
\* ends as a duplicate and adds nothing provided both hashes were computed
\* or both requests carry the same tg_unique_id.
C17_LoserIsDuplicate ==
    [][ \A k \in Slots :
          Finishes(k) =>
              /\ last'.kind # "unhandled"
              /\ \A r \in StoredMeanwhile(k) :
                    ( /\ last'.kind # "download_failed"
                      /\ \/ last'.content_hash # NULL /\ r.content_hash # NULL
                         \/ r.tg_unique_id = inflight[k].upload.tg_unique_id )
                    => (last'.kind \in Duplicate /\ files' = files)
      ]_vars

\* A request has ended as a duplicate by content of the active row that
\* carries its own tg_unique_id: the row was stored after the request had
\* passed the check on tg_unique_id.
C17_Witness ==
    /\ last.op = "handle_file"
    /\ last.kind = "dup_hash"
    /\ \E r \in Active(files, LIBRARY_ID) :
          /\ r.id = last.id
          /\ r.tg_unique_id = last.tg_unique_id
          /\ r.content_hash = last.content_hash

-----------------------------------------------------------------------------
(* The insert the database rejects *)

\* the rows that stand in the way of the row request k would insert
Conflicting(k, content_hash) ==
    {r \in RowsOf(files, LIBRARY_ID) :
        \/ r.tg_unique_id = inflight[k].upload.tg_unique_id
        \/ content_hash # NULL /\ r.content_hash = content_hash}

\* C18 as stated: when the insert is rejected, the answer names the id of
\* the row in the way, and the table is unchanged.
C18_Original ==
    [][ \A k \in Slots :
          (Finishes(k) /\ last'.kind = "dup_db") =>
              /\ \E r \in Conflicting(k, last'.content_hash) : last'.id = r.id
              /\ files' = files
      ]_vars

\* C18, amended: a request that got its payload, whose hash (if any) is not
\* in the table, and whose tg_unique_id is that of an active row, is
\* answered with a duplicate notice that names no row; the table and the
\* id counter are unchanged and the payload just saved is removed.
C18_RejectedInsertNamesNoRow ==
    [][ \A k \in Slots :
          ( /\ Finishes(k)
            /\ last'.kind # "download_failed"
            /\ \A r \in RowsOf(files, LIBRARY_ID) :
                  last'.content_hash = NULL \/ r.content_hash # last'.content_hash
            /\ \E r \in Active(files, LIBRARY_ID) :
                  r.tg_unique_id = inflight[k].upload.tg_unique_id )
          => /\ last'.kind = "dup_db"
             /\ last'.id = NullId
             /\ files' = files
             /\ seq' = seq
             /\ inflight[k].local_path \notin disk'
      ]_vars

\* The database has just turned down the insert of a request whose
\* tg_unique_id an active row holds; the row has no hash, the request had.
C18_Witness ==
    /\ last.op = "handle_file"
    /\ last.kind = "dup_db"
    /\ last.content_hash # NULL
    /\ \E r \in Active(files, LIBRARY_ID) :
          r.tg_unique_id = last.tg_unique_id /\ r.content_hash = NULL

-----------------------------------------------------------------------------
(* Degraded mode *)

RowsWithUnique(F, uid) == {r \in RowsOf(F, LIBRARY_ID) : r.tg_unique_id = uid}

\* C19: no step ends in an unhandled error. A request that got its payload
\* but no hash, and whose tg_unique_id no row holds, is stored with
\* content_hash null. While a row without hash is active, a file that comes
\* in with its tg_unique_id is answered at once as a duplicate of that row;
\* and whatever its state, no step adds a second row with its
\* tg_unique_id.
C19_DegradedMode ==
    [][ /\ last'.kind # "unhandled"
        /\ \A k \in Slots :
              ( /\ Finishes(k)
                /\ last'.kind # "download_failed"
                /\ last'.content_hash = NULL
                /\ RowsWithUnique(files, inflight[k].upload.tg_unique_id) = {} )
              => /\ last'.kind = "added"
                 /\ \E r \in files' \ files :
                       /\ r.content_hash = NULL
                       /\ r.tg_unique_id = inflight[k].upload.tg_unique_id
        /\ \A r \in RowsOf(files, LIBRARY_ID) :
              r.content_hash = NULL =>
                  /\ Cardinality(RowsWithUnique(files', r.tg_unique_id)) <= 1
                  /\ ( /\ \E u \in ADMIN_IDS : Receives(u)
                       /\ last'.kind # "need_subject"
                       /\ last'.tg_unique_id = r.tg_unique_id
                       /\ r.is_deleted = 0 )
                     => /\ last'.kind = "dup_unique"
                        /\ last'.id = r.id
                        /\ files' = files
      ]_vars

\* A file has just been answered as a duplicate of the active row that
\* holds its tg_unique_id and no hash.
C19_Witness ==
    /\ last.op = "handle_file"
    /\ last.kind = "dup_unique"
    /\ \E r \in Active(files, LIBRARY_ID) :
          /\ r.id = last.id
          /\ r.tg_unique_id = last.tg_unique_id
          /\ r.content_hash = NULL

-----------------------------------------------------------------------------
(* Reading a row by id *)

\* C20 as stated: get_file_by_id yields nothing for a row in the trash.
C20_Original ==
    \A r \in Trashed(files, LIBRARY_ID) :
        get_file_by_id(files, LIBRARY_ID, r.id) = {}

\* C20, amended: get_file_by_id yields the row with the id whether it is
\* active or in the trash; it is the handlers that tell them apart:
\* cb_open_file reports a trashed row as not found and opens an active one,
\* cb_trash_open shows a trashed row and turns an active one away; and
\* list_trash holds every trashed row.
C20_CallersFilterTrash ==
    [][ /\ \A r \in RowsOf(files, LIBRARY_ID) :
              get_file_by_id(files, LIBRARY_ID, r.id) = {r}
        /\ \A r \in Trashed(files, LIBRARY_ID) :
              /\ r.id \in SeqToSet(list_trash(files, LIBRARY_ID, 50))
              /\ (last'.op = "cb_open_file" /\ last'.id = r.id)
                    => last'.kind = "not_found"
              /\ (last'.op = "cb_trash_open" /\ last'.id = r.id)
                    => last'.kind = "shown"
        /\ \A r \in Active(files, LIBRARY_ID) :
              /\ (last'.op = "cb_open_file" /\ last'.id = r.id)
                    => last'.kind \in {"sent", "send_failed"}
              /\ (last'.op = "cb_trash_open" /\ last'.id = r.id)
                    => last'.kind = "not_in_trash"
      ]_vars

\* An administrator has just tried to open a row that is in the trash and
\* was told that there is no such file.
C20_Witness ==
    /\ last.op = "cb_open_file"
    /\ last.kind = "not_found"
    /\ \E r \in Trashed(files, LIBRARY_ID) :
          r.id = last.id /\ get_file_by_id(files, LIBRARY_ID, r.id) = {r}

-----------------------------------------------------------------------------
(* Search *)

\* q occurs in t, letters compared without regard to case
Contains(t, q) ==
    /\ t # NullText
    /\ \E i \in 0..(Len(t) - Len(q)) : Lower(SubSeq(t, i + 1, i + Len(q))) = Lower(q)

\* What is searched for: words of names and captions in either case, the head
\* of a subject's name, a word no row holds
PlainQueries ==
    { <<"a","b">>, <<"A">>, <<"p","O","e">>, <<"l","i","n","g">>, <<"z">> }

\* LIKE's one-character wildcard, typed as a query
WildQuery == << "_" >>

SearchLimits == {1, 30}

IsDescending(q) == \A i, j \in 1..Len(q) : i < j => q[i] > q[j]

\* the ids of the active rows that hold q in one of the columns named
MatchesIn(F, q, withSubject) ==
    { r.id : r \in { x \in Active(F, LIBRARY_ID) :
                        \/ Contains(x.filename, q)
                        \/ Contains(x.caption, q)
                        \/ withSubject /\ Contains(x.subject, q) } }

\* the n largest of a set of ids
Largest(S, n) == {x \in S : Cardinality({y \in S : y > x}) < n}

\* C21 as stated: search_files returns the active rows, highest id first and
\* up to the limit, that hold q without regard to case in the filename, the
\* caption or the subject.
C21_Original ==
    \A q \in PlainQueries, n \in SearchLimits :
        /\ IsDescending(search_files(files, LIBRARY_ID, q, n))
        /\ SeqToSet(search_files(files, LIBRARY_ID, q, n))
              = Largest(MatchesIn(files, q, TRUE), n)

\* C21, amended: search_files returns the active rows, highest id first and
\* up to the limit, whose filename or caption matches the LIKE pattern %q%:
\* for a q without wildcards, those that hold q without regard to case in
\* the filename or the caption; the subject is not searched, and a row that
\* holds q only in its subject is not returned; a q of one '_' matches
\* every active row with a non-empty filename or caption.
C21_SearchNameAndCaption ==
    /\ \A q \in PlainQueries, n \in SearchLimits :
          /\ IsDescending(search_files(files, LIBRARY_ID, q, n))
          /\ SeqToSet(search_files(files, LIBRARY_ID, q, n))
                = Largest(MatchesIn(files, q, FALSE), n)
          /\ \A r \in Active(files, LIBRARY_ID) :
                ( Contains(r.subject, q) /\ ~ Contains(r.filename, q) /\ ~ Contains(r.caption, q) )
                => r.id \notin SeqToSet(search_files(files, LIBRARY_ID, q, n))
    /\ \A n \in SearchLimits :
          SeqToSet(search_files(files, LIBRARY_ID, WildQuery, n))
             = Largest({ r.id : r \in { x \in Active(files, LIBRARY_ID) :
                                           \/ x.filename # NullText /\ x.filename # << >>
                                           \/ x.caption # NullText /\ x.caption # << >> } }, n)

\* Two active rows hold "ab", one in its name only and one in its caption
\* only, and the search returns both, the later first, or the later alone
\* when the limit is one; both are filed under Linguistics, and the search
\* for "ling" returns nothing.
C21_Witness ==
    /\ search_files(files, LIBRARY_ID, <<"a","b">>, 30) = << 2, 1 >>
    /\ search_files(files, LIBRARY_ID, <<"a","b">>, 1) = << 2 >>
    /\ \E r1, r2 \in Active(files, LIBRARY_ID) :
          /\ Contains(r1.filename, <<"a","b">>) /\ ~ Contains(r1.caption, <<"a","b">>)
          /\ Contains(r2.caption, <<"a","b">>) /\ ~ Contains(r2.filename, <<"a","b">>)
    /\ \A r \in Active(files, LIBRARY_ID) : Contains(r.subject, <<"l","i","n","g">>)
    /\ search_files(files, LIBRARY_ID, <<"l","i","n","g">>, 30) = << >>

-----------------------------------------------------------------------------
(* Listing a subject *)

\* C22 as stated: whenever a subject is opened, each of its active rows is
\* on a page that can be had; cb_subject takes no cursor, so the pages that
\* can be had are the one list_files_by_subject returns.
C22_EveryActiveRowOnSomePage ==
    [][ last'.op = "cb_subject" =>
          \A r \in Active(files, LIBRARY_ID) :
              r.subject = last'.subj =>
                  r.id \in SeqToSet(list_files_by_subject(files, LIBRARY_ID,
                                                          last'.subj, SUBJECT_PAGE))
      ]_vars

-----------------------------------------------------------------------------
(* The binding outlives its use *)

\* C23: a file received while the declared subject is live leaves the
\* session as it was, the bound subject and its expiry included; so does
\* the rest of its handling after the download, and the row stored has the
\* subject that was bound when the file came in.
C23_BindingNotConsumed ==
    [][ /\ \A u \in ADMIN_IDS :
              ( Receives(u) /\ declared[u] # NoDeclaration /\ now <= Expiry(u) ) =>
                  /\ last'.kind # "need_subject"
                  /\ user_data'[u] = user_data[u]
                  /\ user_data'[u].fixed_subject = declared[u].subject
                  /\ user_data'[u].fixed_until = Expiry(u)
        /\ \A k \in Slots :
              Finishes(k) =>
                  /\ user_data' = user_data
                  /\ last'.kind = "added" =>
                        \E r \in files' \ files : r.subject = inflight[k].subj
      ]_vars

\* Two files were stored under one declaration of Linguistics, made at time
\* 0: one that came in a second later and one that came in at the very
\* second of the expiry; the binding is still in the session.
C23_Witness ==
    /\ last.op = "handle_file"
    /\ last.kind = "added"
    /\ declared[OWNER_ID] = [subject |-> Linguistics, at |-> 0]
    /\ now = Expiry(OWNER_ID)
    /\ user_data[OWNER_ID].fixed_subject = Linguistics
    /\ user_data[OWNER_ID].fixed_until = Expiry(OWNER_ID)
    /\ \E r1, r2 \in files :
          /\ r1.local_path.ts = 1
          /\ r2.local_path.ts = Expiry(OWNER_ID)
          /\ r1.subject = Linguistics
          /\ r2.subject = Linguistics

-----------------------------------------------------------------------------
(* Retention of snapshots *)

\* a snapshot operation has just run: the backup button or the periodic job
\* wrote a snapshot and cleaned up
SnapshotTaken ==
    /\ last'.op \in {"handle_text", "auto_backup_job"}
    /\ last'.kind \in {"backup", "backup_evicted", "backup_unlink_failed"}

\* the snapshots in the directory once the new one is written
Written == {b \in backups : b.at # now} \cup {Snapshot(files, seq, now)}

\* the snapshots the operation removed
Evicted == Written \ backups'

\* C24 as stated: after each snapshot operation at most BACKUP_KEEP
\* snapshots are retained, and every retained snapshot is newer than every
\* evicted one.
C24_Original ==
    [][ SnapshotTaken =>
          /\ Cardinality(backups') <= BACKUP_KEEP
          /\ \A e \in Evicted, r \in backups' : r.at > e.at
      ]_vars

\* C24, amended: after each snapshot operation the new snapshot is retained
\* and only snapshots outside the BACKUP_KEEP latest have been evicted; when
\* every unlink went through, at most BACKUP_KEEP snapshots are retained and
\* every retained snapshot is newer than every evicted one; a snapshot whose
\* unlink failed is retained, beyond the BACKUP_KEEP latest; and with a
\* BACKUP_KEEP of zero nothing is evicted.
C24_EvictsOldestUnlessUnlinkFails ==
    [][ SnapshotTaken =>
          /\ Snapshot(files, seq, now) \in backups'
          /\ backups' \subseteq Written
          /\ \A e \in Evicted : Cardinality({b \in Written : b.at > e.at}) >= BACKUP_KEEP
          /\ last'.kind # "backup_unlink_failed" =>
                /\ Cardinality(backups') <= BACKUP_KEEP
                /\ \A e \in Evicted, r \in backups' : r.at > e.at
                /\ Evicted # {} <=> last'.kind = "backup_evicted"
          /\ last'.kind = "backup_unlink_failed" => Cardinality(backups') > BACKUP_KEEP
          /\ cleanup_old_backups(Written, 0, {}) = Written
      ]_vars

\* The third snapshot has been taken, two seconds after the first, which is
\* gone: the two latest are retained, and the later one holds a row.
C24_Witness ==
    /\ last.kind = "backup_evicted"
    /\ now = 2
    /\ {b.at : b \in backups} = {1, 2}
    /\ \E b \in backups : b.at = 2 /\ b.files # {} /\ b.files = files

-----------------------------------------------------------------------------
(* Restoring the latest snapshot *)

Restores == last'.op = "restore_latest" /\ last'.kind = "restored_backup"

\* C25: a snapshot operation leaves, as the latest snapshot, the table and
\* its sequence as they are at that moment; and right after a restore the
\* table is, row for row and flag for flag, the table of the snapshot that
\* was the latest, whatever was stored, starred or trashed since; a restore
\* is refused, and changes nothing, only while there is no snapshot.
C25_RestoreSubstitutes ==
    [][ /\ SnapshotTaken =>
              \E b \in backups' :
                  /\ b.at = now /\ b.files = files /\ b.seq = seq
                  /\ \A c \in backups' : c.at <= b.at
        /\ Restores =>
              \E b \in backups :
                  /\ \A c \in backups : c.at <= b.at
                  /\ files' = b.files
                  /\ seq' = b.seq
                  /\ backups' = backups
        /\ (last'.op = "restore_latest" /\ last'.user \in ADMIN_IDS /\ ~ Restores) =>
              backups = {} /\ files' = files /\ seq' = seq
      ]_vars

\* Two snapshots were taken, of an empty table and, later, of a table with
\* one starred row; the restore has just put the table of the later one in
\* place.
C25_Witness ==
    /\ last.op = "restore_latest"
    /\ last.kind = "restored_backup"
    /\ \E b0, b1 \in backups :
          /\ b0.at < b1.at
          /\ b0.files = {}
          /\ files = b1.files
          /\ \E r \in files : r.is_fav = 1 /\ r.is_deleted = 0
    /\ now = 2

-----------------------------------------------------------------------------
(* Ids across a restore *)

\* C26 as stated: the id add_file_row gives a new row was never given to a
\* row before, whatever was deleted for good or restored from a snapshot in
\* between.
C26_NoIdIssuedTwice ==
    [][ (last'.op = "handle_file" /\ last'.kind = "added") =>
            /\ last'.id \notin SeqToSet(issued)
            /\ issued' = Append(issued, last'.id)
      ]_vars

-----------------------------------------------------------------------------
(* Owners *)

\* the ids of the rows of an owner
IdsOf(F, o) == {r.id : r \in RowsOf(F, o)}

StoreOps == { "add_file_row", "set_fav", "soft_delete_file", "restore_file",
              "purge_trash", "hard_delete_file" }

\* the identities and hashes a lookup may be asked for
UniqueIds == {up.tg_unique_id : up \in Uploads}

\* C27: a store function called for owner o leaves the rows of every other
\* owner as they are; each lookup and each listing for o yields rows of o
\* alone, and the counts for o count rows of o alone; an insert for o is
\* rejected exactly when o itself holds the identity or the hash, so that a
\* payload another owner holds is stored for o as well, once.
C27_ScopedByOwner ==
    /\ [] \A o \in Owners :
          /\ \A uid \in UniqueIds : get_file_by_unique(files, o, uid) \subseteq RowsOf(files, o)
          /\ \A h \in Hashes : get_file_by_hash(files, o, h) \subseteq RowsOf(files, o)
          /\ \A id \in 1..MaxId : get_file_by_id(files, o, id) \subseteq RowsOf(files, o)
          /\ \A i \in DOMAIN SUBJECTS :
                SeqToSet(list_files_by_subject(files, o, SUBJECTS[i], 50)) \subseteq IdsOf(files, o)
          /\ SeqToSet(list_recent(files, o, 12)) \subseteq IdsOf(files, o)
          /\ SeqToSet(list_favorites(files, o, 50)) \subseteq IdsOf(files, o)
          /\ SeqToSet(list_trash(files, o, 50)) \subseteq IdsOf(files, o)
          /\ \A q \in PlainQueries : SeqToSet(search_files(files, o, q, 30)) \subseteq IdsOf(files, o)
          /\ \A sj \in DOMAIN count_by_subject(files, o) :
                count_by_subject(files, o)[sj]
                   = Cardinality({r \in Active(files, o) : r.subject = sj})
    /\ [][ \A o \in Owners :
             /\ (last'.op \in StoreOps /\ last'.user = o) =>
                   \A v \in Owners \ {o} : RowsOf(files', v) = RowsOf(files, v)
             /\ (last'.op = "add_file_row" /\ last'.user = o) =>
                   /\ last'.kind = "integrity_error" <=>
                         \E r \in RowsOf(files, o) :
                             \/ r.tg_unique_id = last'.tg_unique_id
                             \/ r.content_hash = last'.content_hash
                   /\ last'.kind = "added" =>
                         Cardinality({r \in RowsOf(files', o) :
                                         r.content_hash = last'.content_hash}) = 1
         ]_vars

\* One payload, under one identity, has been stored for two owners: a row
\* each; and the row of the first is in the trash while that of the second,
\* stored last, is active.
C27_Witness ==
    /\ last.op = "add_file_row"
    /\ last.kind = "added"
    /\ \E r1, r2 \in files :
          /\ r1.user_id # r2.user_id
          /\ r1.tg_unique_id = r2.tg_unique_id
          /\ r1.content_hash = r2.content_hash
          /\ r1.is_deleted = 1
          /\ r2.is_deleted = 0
          /\ r2.id = last.id

-----------------------------------------------------------------------------
(* Subjects are the configured ones *)

ConfiguredSubjects == {SUBJECTS[i] : i \in DOMAIN SUBJECTS}

\* Subjects as a user may type them
TypedSubjects ==
    { <<"p","o","e","t","r","y">>,
      <<" ","D","R","A","M","A"," "," ">>,
      <<"N","o","v","e","l">>,
      <<"g","R","a","M","m","A","r"," ">>,
      <<"N","o","v","e","l","s">> }

\* C28: the subject of every row, the subject bound in every session and
\* the subject of every request at its download are configured subjects,
\* spelled as configured; and normalize_subject turns a text into the
\* configured subject that equals it but for case and outer blanks, or
\* into None.
C28_SubjectsCanonical ==
    /\ \A r \in files : r.subject \in ConfiguredSubjects
    /\ \A u \in Users : user_data[u].fixed_subject \in ConfiguredSubjects \cup {NullText}
    /\ \A k \in Slots : inflight[k].busy => inflight[k].subj \in ConfiguredSubjects
    /\ \A t \in Texts \cup TypedSubjects :
          \/ /\ normalize_subject(t) = NullText
             /\ \A c \in ConfiguredSubjects : Lower(Strip(t)) # Lower(c)
          \/ /\ normalize_subject(t) \in ConfiguredSubjects
             /\ Lower(Strip(t)) = Lower(normalize_subject(t))

\* The administrator typed " linguisticS ", and the file sent next has been
\* stored under Linguistics.
C28_Witness ==
    /\ last.op = "handle_file"
    /\ last.kind = "added"
    /\ normalize_subject(DeclareText) # Strip(DeclareText)
    /\ declared[OWNER_ID].subject = normalize_subject(DeclareText)
    /\ \E r \in files : r.id = last.id /\ r.subject = Linguistics

-----------------------------------------------------------------------------
(* Hard deletion when the payload cannot be unlinked *)

\* The rows of the library with the id the last step named
Named(F) == { r \in F : r.user_id = LIBRARY_ID /\ r.id = last'.id }

\* C29: a hard deletion by an administrator removes the row it names and no
\* other, whether or not the unlink of its local_path succeeds; it ends in
\* its ordinary reply either way, and a failed unlink leaves the payload
\* files as they were.
C29_UnlinkFailureDoesNotAbort ==
    [][ (last'.op = "cb_hard_delete" /\ last'.user \in ADMIN_IDS) =>
          /\ last'.kind \in { "deleted", "deleted_unlink_failed" }
          /\ files' = files \ Named(files)
          /\ last'.kind = "deleted_unlink_failed" =>
                /\ Named(files) # {}
                /\ disk' = disk
      ]_vars

\* The only row stored has been deleted for good while its payload, which
\* could not be unlinked, is still on disk.
C29_Witness ==
    /\ last.op = "cb_hard_delete"
    /\ last.kind = "deleted_unlink_failed"
    /\ issued = << 1 >>
    /\ files = {}
    /\ \E path \in disk : path.ts = 0

-----------------------------------------------------------------------------
(* The two markers of the trash *)

\* C30: in every reachable state, after any sequence of inserts, soft
\* deletions, restores and updates of an existing row by a repeated upload,
\* every row has is_deleted = 1 exactly when its deleted_at is not null, and
\* is_deleted is 0 or 1.
C30_TrashMarkersAgree ==
    \A r \in files :
        /\ r.is_deleted \in { 0, 1 }
        /\ r.is_deleted = 1 <=> r.deleted_at # NullTime

\* A row that was in the trash has been brought back by a repeated upload,
\* with both markers cleared, while the other row is in the trash with both
\* markers set.
C30_Witness ==
    /\ last.op = "handle_file"
    /\ last.kind = "restored"
    /\ \E r \in files : r.id = last.id /\ r.is_deleted = 0 /\ r.deleted_at = NullTime
    /\ \E r \in files : r.id # last.id /\ r.is_deleted = 1 /\ r.deleted_at # NullTime

-----------------------------------------------------------------------------
(* What the three updates of one row leave alone *)

RowUpdates == { "set_fav", "soft_delete_file", "restore_file" }

\* the row the last call was aimed at
Targeted(r) == r.user_id = last'.user /\ r.id = last'.id

\* the columns none of the three updates writes
SameIdentity(r, w) ==
    /\ w.id = r.id
    /\ w.user_id = r.user_id
    /\ w.subject = r.subject
    /\ w.tg_unique_id = r.tg_unique_id
    /\ w.content_hash = r.content_hash
    /\ w.added_at = r.added_at
    /\ w.filename = r.filename
    /\ w.caption = r.caption
    /\ w.local_path = r.local_path

\* C31: set_fav, soft_delete_file and restore_file neither add nor remove a
\* row; every row but the targeted one stays as it is; the targeted row
\* keeps its id, owner, subject, tg_unique_id, content_hash and added_at
\* (and its name, caption and path); soft_delete_file and restore_file keep
\* its is_fav, and set_fav keeps its is_deleted and deleted_at.
C31_UpdatesKeepTheRest ==
    [][ last'.op \in RowUpdates =>
          /\ Cardinality(files') = Cardinality(files)
          /\ \A r \in files :
                \E w \in files' :
                    /\ SameIdentity(r, w)
                    /\ ~ Targeted(r) => w = r
                    /\ last'.op \in { "soft_delete_file", "restore_file" } => w.is_fav = r.is_fav
                    /\ last'.op = "set_fav" =>
                          (w.is_deleted = r.is_deleted /\ w.deleted_at = r.deleted_at)
      ]_vars

\* A starred row, stored at second 0, has been put in the trash later and
\* still has its star, while the other row of the same owner is active.
C31_Witness ==
    /\ last.op = "soft_delete_file"
    /\ \E r, x \in files :
          /\ r.user_id = last.user
          /\ r.id = last.id
          /\ r.is_fav = 1
          /\ r.is_deleted = 1
          /\ r.added_at = 0
          /\ r.deleted_at > 0
          /\ x.user_id = r.user_id
          /\ x.id # r.id
          /\ x.is_deleted = 0

-----------------------------------------------------------------------------
(* A duplicate of an active row is turned away without a write *)

\* the outcomes of handle_file at and after its check on tg_unique_id
PastIdentityCheck == { "dup_unique", "downloading" }

\* the outcomes of handle_file at and after its check on content_hash
PastHashCheck == { "dup_hash", "unhandled", "restored", "dup_db", "added" }

ActiveWithUnique(uid) ==
    { r \in Active(files, LIBRARY_ID) : r.tg_unique_id = uid }

\* C32: a file whose tg_unique_id an active row holds is turned away at the
\* first check, and a file whose computed hash an active row holds is turned
\* away at the second; a submission turned away at either check leaves the
\* table as it was, row for row and field for field, and issues no id.
C32_DuplicateLeavesStore ==
    [][ last'.op = "handle_file" =>
          /\ last'.kind \in PastIdentityCheck =>
                (last'.kind = "dup_unique" <=> ActiveWithUnique(last'.tg_unique_id) # {})
          /\ ( /\ last'.kind \in PastHashCheck
               /\ last'.content_hash # NULL
               /\ ActiveWithHash(LIBRARY_ID, last'.content_hash) # {} ) =>
                last'.kind = "dup_hash"
          /\ last'.kind \in { "dup_unique", "dup_hash" } =>
                /\ files' = files
                /\ seq' = seq
                /\ issued' = issued
      ]_vars

\* A payload that the only row, an active one, holds under another
\* tg_unique_id has been turned away by its hash, and that row is still the
\* only one.
C32_Witness ==
    /\ last.op = "handle_file"
    /\ last.kind = "dup_hash"
    /\ issued = << 1 >>
    /\ \E r \in files :
          /\ files = {r}
          /\ r.id = last.id
          /\ r.is_deleted = 0
          /\ r.content_hash = last.content_hash
          /\ r.tg_unique_id # last.tg_unique_id

-----------------------------------------------------------------------------
(* Requests of users who are no administrators *)

\* the handlers that write for an administrator
WritingHandlers ==
    { "handle_file", "handle_text", "cb_fav", "cb_del", "cb_restore",
      "cb_hard_delete", "purge_trash_cmd", "restore_latest" }

\* the sticky subject in a user's session
Binding(data) == << data.fixed_subject, data.fixed_until >>

\* C33: a request of a user who is no administrator, be it a file, a text
\* that names a subject, the snapshot button, a button of a file (star,
\* trash, restore, delete for good), the purge or the restore of the latest
\* snapshot, leaves every row, the id counter, every payload file, every
\* snapshot and every user's sticky subject as they were, and starts no
\* download.
C33_GuestsWriteNothing ==
    [][ (last'.op \in WritingHandlers /\ last'.user \notin ADMIN_IDS) =>
          /\ files' = files
          /\ seq' = seq
          /\ issued' = issued
          /\ disk' = disk
          /\ backups' = backups
          /\ inflight' = inflight
          /\ \A u \in Users : Binding(user_data'[u]) = Binding(user_data[u])
      ]_vars

\* A user who is no administrator has asked for the restore of the latest
\* snapshot, which holds no row, and was refused: the row stored since, its
\* payload, the snapshot and the administrator's sticky subject are all
\* there.
C33_Witness ==
    /\ last.op = "restore_latest"
    /\ last.user \notin ADMIN_IDS
    /\ last.kind = "not_admin"
    /\ \E r \in files : r.local_path \in disk
    /\ \E b \in backups : b.files = {}
    /\ user_data[OWNER_ID].fixed_subject # NullText

-----------------------------------------------------------------------------
(* How a sticky subject ends *)

\* the session holds a subject whose expiry has not passed
Live(u) ==
    /\ user_data[u].fixed_subject # NullText
    /\ now <= user_data[u].fixed_until

LiveAfter(u) ==
    /\ user_data'[u].fixed_subject # NullText
    /\ now' <= user_data'[u].fixed_until

\* the step is a declaration by u that handle_text accepted
Declares(u) ==
    /\ last'.op = "handle_text"
    /\ last'.user = u
    /\ last'.kind = "fixed"

\* C34: while a sticky subject is live, the only steps that change it are
\* /start of its user, which leaves no subject bound, and a declaration by
\* its user, which binds the subject declared until ten minutes from now;
\* a session without a live subject gets one by a declaration only, and a
\* file received in such a session is given no subject.
C34_BindingEndsByStartOrDeclaration ==
    [][ \A u \in ADMIN_IDS :
          /\ (Live(u) /\ Binding(user_data'[u]) # Binding(user_data[u])) =>
                \/ /\ last'.op = "start"
                   /\ last'.user = u
                   /\ Binding(user_data'[u]) = Binding(EmptyData)
                \/ /\ Declares(u)
                   /\ user_data'[u].fixed_subject = last'.subj
                   /\ user_data'[u].fixed_until = now + FIXED_TTL
          /\ (~ Live(u) /\ LiveAfter(u)) => Declares(u)
          /\ (~ Live(u) /\ Receives(u)) => last'.subj = NullText
      ]_vars

\* Linguistics was bound at second 0 and a file stored under it; Poetry was
\* declared at the second Linguistics would have expired, and at its own
\* expiry, after the file was put in the trash, Poetry is still bound.
C34_Witness ==
    /\ last.op = "cb_del"
    /\ now = 2 * FIXED_TTL
    /\ user_data[OWNER_ID].fixed_subject = Poetry
    /\ user_data[OWNER_ID].fixed_until = 2 * FIXED_TTL
    /\ \E r \in files :
          /\ r.subject = Linguistics
          /\ r.added_at = 0
          /\ r.is_deleted = 1

=============================================================================
